---- MODULE Spec2Model ----
(***************************************************************************)
(* Stage lifecycle, event log and stage-summary aggregation of the 3DCG    *)
(* tutorial add-on (src/__init__.py) and of the standalone aggregation     *)
(* script (src/23DB000/jsonl_to_stage_summary_csv.py).                     *)
(*                                                                         *)
(* Time values (time.time(), stalled seconds) are integers in units of     *)
(* half a second; 0 is the "unset" stage_start_time of the code (0.0).     *)
(* Strings that the code only stores and copies (messages, hints, error    *)
(* texts) are short ASCII tags.                                            *)
(***************************************************************************)
EXTENDS Integers, Sequences, FiniteSets, TLC

VARIABLES
    props,      \* scene.tutorial_props (TUTORIAL_PG_Properties)
    logfile,    \* lines of the participant JSONL file (<<>> while none exists)
    csv_file,   \* content of <log>.stage_summary.csv (NoCsv while none exists)
    now,        \* the wall clock, time.time()
    nops,       \* number of operator invocations so far (bounds the run)
    nfaults,    \* number of faults met so far: an operator invocation during
                \* which the file system fails, a setup whose scene commands fail
    scene_off,  \* the scene as turn_off_scene_camera_and_lights leaves it:
                \* no camera, the lights hidden
    hint_call,  \* a call of apply_hint_escalation: its arguments and, once
                \* it has returned, its result
    evaluation  \* calls of StageManager.validate_stage on one environment:
                \* the key at the first call, the snapshot and the outcomes
                \* returned so far

vars == <<props, logfile, csv_file, now, nops, nfaults, scene_off, hint_call,
         evaluation>>

(***************************************************************************)
(* Bounds of the model.                                                    *)
(***************************************************************************)
MaxTime == 2        \* the clock takes the values 1..MaxTime
MaxOps == 3         \* operator invocations in one run of Spec
MaxFaults == 1      \* faults in one run
MaxWalk == 25       \* presses of "next" in one run of SpecWalk
MaxRestarts == 503  \* setups in one run of SpecHistory
MaxLogLen == 2      \* lines of a log handed to the aggregators in SpecAgg
MaxHints == 4       \* hints a stage defines, in SpecHints
MaxCount == 4       \* largest failure count handed to the escalation in SpecHints
MaxStage == 7       \* largest stage number handed to validate_stage in SpecEvaluate
MaxCalls == 2       \* calls of validate_stage in one run of SpecEvaluate

Max(a, b) == IF a >= b THEN a ELSE b
Abs(x) == IF x >= 0 THEN x ELSE 0 - x

(***************************************************************************)
(* Curriculum table.                                                       *)
(***************************************************************************)
LastChapter == 6

max_stages_per_chapter(ch) ==
    CASE ch = 1 -> 4
      [] ch = 2 -> 4
      [] ch = 3 -> 6
      [] ch = 4 -> 4
      [] ch = 5 -> 5
      [] ch = 6 -> 1
      [] OTHER -> 1

Chapters == 1..LastChapter

AllKeys == {k \in Chapters \X (1..6) : k[2] <= max_stages_per_chapter(k[1])}

(***************************************************************************)
(* Environment snapshots read by validate_stage.  Lengths are in           *)
(* hundredths, angles in tenths of a degree, scale in thousandths.         *)
(***************************************************************************)
EnvDefault ==
    [obj |-> "None", obj_mesh |-> FALSE, movement |-> 0, rot |-> 0,
     scale_diff |-> 0, view3d |-> TRUE, loc_diff |-> 0, dist_diff |-> 0,
     mode |-> "OBJECT", select_mode |-> <<FALSE, FALSE, FALSE>>,
     sel_verts |-> 0, edge_sel |-> FALSE, face_sel |-> FALSE,
     faces_added |-> 0, verts_added |-> 0, sphere |-> FALSE, moved |-> 0,
     brush |-> "None", material |-> "None", bsdf_node |-> FALSE,
     base_diff |-> 0, tex_image |-> FALSE, link_ok |-> FALSE,
     rough_diff |-> 0, metal_diff |-> 0, render_saved |-> FALSE]

Objs == {"None", "Cube", "Other"}
Modes == {"OBJECT", "EDIT_MESH", "SCULPT"}

Snapshots(ch, st) ==
    CASE ch = 1 /\ st = 2 ->
            {[EnvDefault EXCEPT !.obj = o, !.movement = v] :
                o \in Objs, v \in {0, 191, 210}}
      [] ch = 1 /\ st = 3 ->
            {[EnvDefault EXCEPT !.obj = o, !.rot = v] :
                o \in Objs, v \in {0, 441, 460}}
      [] ch = 1 /\ st = 4 ->
            {[EnvDefault EXCEPT !.obj = o, !.scale_diff = v] :
                o \in Objs, v \in {0, 10, 11}}
      [] ch = 1 -> {[EnvDefault EXCEPT !.obj = o] : o \in Objs}
      [] ch = 2 ->
            {[EnvDefault EXCEPT !.view3d = FALSE]} \cup
            {[EnvDefault EXCEPT !.loc_diff = x[1], !.dist_diff = x[2]] :
                x \in {<<0, 0>>, <<2, 0>>, <<0, 2>>, <<11, 50>>, <<10, 51>>, <<11, 51>>}}
      [] ch = 3 /\ st = 2 ->
            {[EnvDefault EXCEPT !.obj = "Cube", !.obj_mesh = TRUE, !.mode = m,
                                !.select_mode = <<v, ~v, FALSE>>, !.sel_verts = n] :
                m \in {"OBJECT", "EDIT_MESH"}, v \in BOOLEAN, n \in {2, 3}}
      [] ch = 3 /\ st \in {3, 4} ->
            {[EnvDefault EXCEPT !.obj = "Cube", !.obj_mesh = TRUE, !.mode = m,
                                !.select_mode = <<FALSE, e, ~e>>,
                                !.edge_sel = x, !.face_sel = x] :
                m \in {"OBJECT", "EDIT_MESH"}, e \in BOOLEAN, x \in BOOLEAN}
      [] ch = 3 ->
            {[EnvDefault EXCEPT !.obj = o, !.obj_mesh = (o # "None"), !.mode = m,
                                !.faces_added = a, !.verts_added = a] :
                o \in {"None", "Cube"}, m \in {"OBJECT", "EDIT_MESH"}, a \in {0, 1}}
      [] ch = 4 ->
            {[EnvDefault EXCEPT !.sphere = s, !.mode = m, !.moved = n, !.brush = b] :
                s \in BOOLEAN, m \in {"OBJECT", "SCULPT"}, n \in {5, 6},
                b \in {"None", "Draw", "Smooth", "Grab"}}
      [] ch = 5 ->
            {[EnvDefault EXCEPT !.obj = o, !.material = m, !.bsdf_node = b,
                                !.base_diff = d, !.tex_image = b, !.link_ok = d > 1,
                                !.rough_diff = d, !.metal_diff = 0] :
                o \in {"None", "Cube"}, m \in {"None", "NoNodes", "Nodes"},
                b \in BOOLEAN, d \in {1, 2}}
      [] OTHER -> {[EnvDefault EXCEPT !.render_saved = r] : r \in BOOLEAN}

(***************************************************************************)
(* StageManager.apply_hint_escalation                                      *)
(***************************************************************************)
Prefix(s, n) == SubSeq(s, 1, IF n <= Len(s) THEN n ELSE Len(s))

\* a faulty escalation that shows one hint per failure without the cap of 3
escalation_without_cap(hints, failed_validate_count) ==
    IF hints = <<>> THEN <<>>
    ELSE IF failed_validate_count <= 1 THEN Prefix(hints, 1)
    ELSE Prefix(hints, failed_validate_count)

apply_hint_escalation(hints, failed_validate_count) ==
    IF hints = <<>> THEN <<>>
    ELSE IF failed_validate_count <= 1 THEN Prefix(hints, 1)
    ELSE IF failed_validate_count = 2 THEN Prefix(hints, 2)
    ELSE Prefix(hints, 3)

\* "\n".join(escalated)
RECURSIVE JoinLines(_)
JoinLines(s) ==
    IF s = <<>> THEN <<>>
    ELSE IF Len(s) = 1 THEN <<s[1]>>
    ELSE <<s[1], "\n">> \o JoinLines(Tail(s))

(***************************************************************************)
(* StageManager.validate_stage: (ok, message, reason, hints) for the       *)
(* current key and the environment.  Messages that embed a measured value  *)
(* are represented by their fixed part.                                    *)
(***************************************************************************)
Outcome(ok, message, reason, hints) ==
    [ok |-> ok, message |-> message, reason |-> reason, hints |-> hints]

IsCube(env) == env.obj = "Cube"
HasObj(env) == env.obj # "None"

\* StageManager.get_bm(obj) is not None
get_bm(env) == HasObj(env) /\ env.obj_mesh /\ env.mode = "EDIT_MESH"

is_in_sculpt_mode(env) == env.mode = "SCULPT"

is_brush_type_selected(env, name) == env.brush = name

\* get_active_material(obj) with use_nodes, get_principled_bsdf(mat)
MatNodes(env) == HasObj(env) /\ env.material = "Nodes"
get_principled_bsdf(env) == MatNodes(env) /\ env.bsdf_node

\* a faulty chapter 1 that looks at the transform before the active object
validate_ch1_transform_first(st, env) ==
    IF st = 1 THEN
        IF IsCube(env) THEN Outcome(TRUE, "cube_selected", "OK", <<>>)
        ELSE Outcome(FALSE, "select_cube", "NO_ACTIVE_CUBE", <<"h_click_cube">>)
    ELSE IF st = 2 /\ Abs(env.movement - 200) < 10 THEN
        Outcome(TRUE, "moved_2", "OK", <<>>)
    ELSE IF st = 3 /\ Abs(env.rot - 450) < 10 THEN
        Outcome(TRUE, "rotated_45", "OK", <<>>)
    ELSE IF st = 4 /\ Abs(env.scale_diff) > 10 THEN
        Outcome(TRUE, "scaled", "OK", <<>>)
    ELSE IF st \in {2, 3, 4} /\ ~IsCube(env) THEN
        Outcome(FALSE, "no_cube", "NO_ACTIVE_CUBE", <<"h_select_cube_first">>)
    ELSE IF st = 2 THEN
        Outcome(FALSE, "movement", "TRANSFORM_NOT_MATCHED", <<"h_g_x_2">>)
    ELSE IF st = 3 THEN
        Outcome(FALSE, "rotation", "TRANSFORM_NOT_MATCHED", <<"h_r_x_45">>)
    ELSE IF st = 4 THEN
        Outcome(FALSE, "change_scale", "SCALE_NOT_CHANGED", <<"h_s_key">>)
    ELSE Outcome(FALSE, "judge_error", "UNKNOWN", <<"h_setup_retry">>)

validate_ch1(st, env) ==
    IF st = 1 THEN
        IF IsCube(env) THEN Outcome(TRUE, "cube_selected", "OK", <<>>)
        ELSE Outcome(FALSE, "select_cube", "NO_ACTIVE_CUBE", <<"h_click_cube">>)
    ELSE IF st \in {2, 3, 4} /\ ~IsCube(env) THEN
        Outcome(FALSE, "no_cube", "NO_ACTIVE_CUBE", <<"h_select_cube_first">>)
    ELSE IF st = 2 THEN
        IF Abs(env.movement - 200) < 10 THEN Outcome(TRUE, "moved_2", "OK", <<>>)
        ELSE Outcome(FALSE, "movement", "TRANSFORM_NOT_MATCHED", <<"h_g_x_2">>)
    ELSE IF st = 3 THEN
        IF Abs(env.rot - 450) < 10 THEN Outcome(TRUE, "rotated_45", "OK", <<>>)
        ELSE Outcome(FALSE, "rotation", "TRANSFORM_NOT_MATCHED", <<"h_r_x_45">>)
    ELSE IF st = 4 THEN
        IF Abs(env.scale_diff) > 10 THEN Outcome(TRUE, "scaled", "OK", <<>>)
        ELSE Outcome(FALSE, "change_scale", "SCALE_NOT_CHANGED", <<"h_s_key">>)
    ELSE Outcome(FALSE, "judge_error", "UNKNOWN", <<"h_setup_retry">>)

validate_ch2(st, env) ==
    IF ~env.view3d THEN
        Outcome(FALSE, "no_view3d", "NO_VIEW3D", <<"h_back_to_view3d">>)
    ELSE IF st = 1 THEN
        IF env.loc_diff > 10 THEN Outcome(TRUE, "view_moved", "OK", <<>>)
        ELSE Outcome(FALSE, "pan_view", "VIEW_NOT_MOVED", <<"h_shift_mmb">>)
    ELSE IF st = 2 THEN
        IF Abs(env.dist_diff) > 50 THEN Outcome(TRUE, "zoomed", "OK", <<>>)
        ELSE Outcome(FALSE, "zoom_view", "VIEW_NOT_ZOOMED", <<"h_scroll">>)
    ELSE IF st = 3 THEN
        IF env.loc_diff > 1 \/ Abs(env.dist_diff) > 1
        THEN Outcome(TRUE, "view_rotated", "OK", <<>>)
        ELSE Outcome(FALSE, "rotate_view", "VIEW_NOT_ROTATED", <<"h_mmb_drag">>)
    ELSE IF st = 4 THEN
        IF env.loc_diff > 10 /\ Abs(env.dist_diff) > 50
        THEN Outcome(TRUE, "view_mastered", "OK", <<>>)
        ELSE Outcome(FALSE, "pan_and_zoom", "VIEW_NOT_COMPLETED",
                     <<"h_shift_mmb_pan", "h_wheel_zoom">>)
    ELSE Outcome(FALSE, "judge_error", "UNKNOWN", <<"h_setup_retry">>)

validate_ch3(st, env) ==
    IF st = 1 THEN
        IF HasObj(env) /\ env.mode = "EDIT_MESH"
        THEN Outcome(TRUE, "edit_mode_entered", "OK", <<>>)
        ELSE Outcome(FALSE, "enter_edit_mode", "NOT_IN_EDIT_MODE", <<"h_tab_edit">>)
    ELSE IF ~get_bm(env) THEN
        Outcome(FALSE, "edit_mode_required", "NOT_IN_EDIT_MODE", <<"h_tab_edit">>)
    ELSE IF st = 2 THEN
        IF ~env.select_mode[1] THEN
            Outcome(FALSE, "switch_vertex_mode", "WRONG_SELECT_MODE", <<"h_key_1">>)
        ELSE IF env.sel_verts >= 3 THEN Outcome(TRUE, "verts_selected", "OK", <<>>)
        ELSE Outcome(FALSE, "select_verts", "NOT_ENOUGH_SELECTED",
                     <<"h_shift_multi", "h_three_or_more">>)
    ELSE IF st = 3 THEN
        IF ~env.select_mode[2] THEN
            Outcome(FALSE, "switch_edge_mode", "WRONG_SELECT_MODE", <<"h_key_2">>)
        ELSE IF env.edge_sel THEN Outcome(TRUE, "edge_selected", "OK", <<>>)
        ELSE Outcome(FALSE, "select_edge", "NOTHING_SELECTED", <<"h_click_edge">>)
    ELSE IF st = 4 THEN
        IF ~env.select_mode[3] THEN
            Outcome(FALSE, "switch_face_mode", "WRONG_SELECT_MODE", <<"h_key_3">>)
        ELSE IF env.face_sel THEN Outcome(TRUE, "face_selected", "OK", <<>>)
        ELSE Outcome(FALSE, "select_face", "NOTHING_SELECTED", <<"h_click_face">>)
    ELSE IF st = 5 THEN
        IF env.faces_added > 0 THEN Outcome(TRUE, "extruded", "OK", <<>>)
        ELSE Outcome(FALSE, "extrude_face", "EXTRUDE_NOT_DETECTED", <<"h_e_enter">>)
    ELSE IF st = 6 THEN
        IF env.verts_added > 0 THEN Outcome(TRUE, "loopcut_done", "OK", <<>>)
        ELSE Outcome(FALSE, "add_loopcut", "LOOPCUT_NOT_DETECTED", <<"h_ctrl_r">>)
    ELSE Outcome(FALSE, "judge_error", "UNKNOWN", <<"h_setup_retry">>)

validate_ch4(st, env) ==
    IF st = 1 THEN
        IF is_in_sculpt_mode(env) /\ env.sphere
        THEN Outcome(TRUE, "sculpt_entered", "OK", <<>>)
        ELSE Outcome(FALSE, "enter_sculpt", "NOT_IN_SCULPT_MODE", <<"h_setup_sculpt">>)
    ELSE IF st = 2 THEN
        IF is_in_sculpt_mode(env) /\ env.sphere THEN
            IF env.moved > 5 THEN Outcome(TRUE, "draw_deformed", "OK", <<>>)
            ELSE Outcome(FALSE, "deform_with_draw", "SCULPT_NOT_DETECTED",
                         <<"h_draw_drag", "h_f_size">>)
        ELSE Outcome(FALSE, "sculpt_required", "NOT_IN_SCULPT_MODE", <<"h_switch_sculpt">>)
    ELSE IF st = 3 THEN
        IF is_in_sculpt_mode(env) /\ is_brush_type_selected(env, "Smooth")
        THEN Outcome(TRUE, "smooth_selected", "OK", <<>>)
        ELSE Outcome(FALSE, "select_smooth", "WRONG_BRUSH", <<"h_smooth">>)
    ELSE IF st = 4 THEN
        IF is_in_sculpt_mode(env) /\ is_brush_type_selected(env, "Grab")
        THEN Outcome(TRUE, "grab_selected", "OK", <<>>)
        ELSE Outcome(FALSE, "select_grab", "WRONG_BRUSH", <<"h_grab">>)
    ELSE Outcome(FALSE, "judge_error", "UNKNOWN", <<"h_setup_retry">>)

validate_ch5(st, env) ==
    IF st \in {1, 2, 5} /\ ~HasObj(env) THEN
        Outcome(FALSE, "select_object", "NO_ACTIVE_OBJECT", <<"h_select_object">>)
    ELSE IF st = 1 THEN
        IF MatNodes(env) THEN Outcome(TRUE, "material_created", "OK", <<>>)
        ELSE Outcome(FALSE, "create_material", "NO_MATERIAL", <<"h_new_material">>)
    ELSE IF st \in {2, 5} /\ ~get_principled_bsdf(env) THEN
        Outcome(FALSE, "no_bsdf", "NO_BSDF", <<"h_use_nodes">>)
    ELSE IF st = 2 THEN
        IF Abs(env.base_diff) > 1 THEN Outcome(TRUE, "base_color_changed", "OK", <<>>)
        ELSE Outcome(FALSE, "change_base_color", "BASE_COLOR_NOT_CHANGED",
                     <<"h_base_color">>)
    ELSE IF st = 3 THEN
        IF MatNodes(env) /\ env.tex_image
        THEN Outcome(TRUE, "texture_loaded", "OK", <<>>)
        ELSE Outcome(FALSE, "load_texture", "NO_IMAGE_TEXTURE", <<"h_open_image">>)
    ELSE IF st = 4 THEN
        IF MatNodes(env) /\ env.link_ok
        THEN Outcome(TRUE, "nodes_linked", "OK", <<>>)
        ELSE Outcome(FALSE, "link_nodes", "NODE_LINK_INCORRECT", <<"h_color_to_base">>)
    ELSE IF st = 5 THEN
        IF Abs(env.rough_diff) > 1 \/ Abs(env.metal_diff) > 1
        THEN Outcome(TRUE, "pbr_changed", "OK", <<>>)
        ELSE Outcome(FALSE, "change_pbr", "PBR_NOT_CHANGED", <<"h_rough_metal">>)
    ELSE Outcome(FALSE, "judge_error", "UNKNOWN", <<"h_setup_retry">>)

validate_ch6(env) ==
    IF env.render_saved THEN Outcome(TRUE, "save_ok", "OK", <<>>)
    ELSE Outcome(FALSE, "save_not_detected", "RENDER_NOT_SAVED",
                 <<"h_f12_save_as", "h_helper_button">>)

validate_stage(ch, st, env) ==
    CASE ch = 1 -> validate_ch1(st, env)
      [] ch = 2 -> validate_ch2(st, env)
      [] ch = 3 -> validate_ch3(st, env)
      [] ch = 4 -> validate_ch4(st, env)
      [] ch = 5 -> validate_ch5(st, env)
      [] ch = 6 -> validate_ch6(env)
      [] OTHER -> Outcome(FALSE, "judge_error", "UNKNOWN", <<"h_setup_retry">>)

\* validate_stage forces current_stage to 1 in chapter 6 (lines 782-784)
validate_stage_current_stage(ch, st) == IF ch = 6 THEN 1 ELSE st

(***************************************************************************)
(* Participant log (JSONL).  A participant id is a sequence of characters; *)
(* a line of the file is the text json.dumps wrote, or a damaged text.     *)
(***************************************************************************)
AlnumChars == {"p", "q", "1", "2"}
Blanks == {" "}

\* str.strip()
RECURSIVE LStrip(_)
LStrip(s) == IF s # <<>> /\ s[1] \in Blanks THEN LStrip(Tail(s)) ELSE s

RECURSIVE RStrip(_)
RStrip(s) ==
    IF s # <<>> /\ s[Len(s)] \in Blanks THEN RStrip(SubSeq(s, 1, Len(s) - 1)) ELSE s

Strip(s) == RStrip(LStrip(s))

\* a faulty sanitizer that does not strip the id first
_safe_participant_id_unstripped(pid) ==
    [i \in 1..Len(pid) |-> IF pid[i] \in AlnumChars \cup {"-", "_"} THEN pid[i] ELSE "_"]

_safe_participant_id(pid) ==
    LET t == Strip(pid) IN
    [i \in 1..Len(t) |-> IF t[i] \in AlnumChars \cup {"-", "_"} THEN t[i] ELSE "_"]

\* json.dumps(event) + "\n" and json.loads(line)
JsonDumps(ev) == [text |-> "json", value |-> ev]
JsonParses(line) == line.text = "json"
JsonLoads(line) == line.value

NoPath == <<>>
\* os.path.join(dir_abs, f"{pid}_{ts}.jsonl")
LogPath(pid, t) == <<pid, t>>

World(p, f) == [p |-> p, f |-> f]

\* os.path.isfile(participant_log_path): the model never deletes a file
LogFileExists(W) == W.p.participant_log_path # NoPath

SetErr(W, e) == [W EXCEPT !.p.participant_log_error = e]

\* a faulty version that starts a new file at every call
ensure_new_file_each_time(W, t, ios) ==
    LET pid == _safe_participant_id(W.p.participant_id) IN
    IF pid = <<>> THEN [ok |-> FALSE, W |-> SetErr(W, "ERR_NO_PID")]
    ELSE IF ios = "dir_fail" THEN [ok |-> FALSE, W |-> SetErr(W, "ERR_DIR")]
    ELSE IF ios = "open_fail" THEN [ok |-> FALSE, W |-> SetErr(W, "ERR_CREATE")]
    ELSE [ok |-> TRUE,
          W |-> [W EXCEPT !.p = [W.p EXCEPT !.participant_log_path = LogPath(pid, t),
                                            !.participant_log_error = ""],
                          !.f = Append(W.f, JsonDumps([t |-> t, participant_id |-> pid,
                                                       event |-> "session_start"]))]]

ensure_participant_log_file(W, t, ios) ==
    LET pid == _safe_participant_id(W.p.participant_id) IN
    IF pid = <<>> THEN [ok |-> FALSE, W |-> SetErr(W, "ERR_NO_PID")]
    ELSE IF ios = "dir_fail" THEN [ok |-> FALSE, W |-> SetErr(W, "ERR_DIR")]
    ELSE IF LogFileExists(W) THEN [ok |-> TRUE, W |-> SetErr(W, "")]
    ELSE IF ios = "open_fail" THEN [ok |-> FALSE, W |-> SetErr(W, "ERR_CREATE")]
    ELSE [ok |-> TRUE,
          W |-> [W EXCEPT !.p = [W.p EXCEPT !.participant_log_path = LogPath(pid, t),
                                            !.participant_log_error = ""],
                          !.f = Append(W.f, JsonDumps([t |-> t, participant_id |-> pid,
                                                       event |-> "session_start"]))]]

\* a faulty writer that opens the log for writing instead of appending
append_overwriting(W, event, t, ios) ==
    IF ~W.p.enable_participant_logging THEN W
    ELSE LET e == ensure_participant_log_file(W, t, ios) IN
         IF ~e.ok THEN e.W
         ELSE IF ios = "open_fail" THEN SetErr(e.W, "ERR_WRITE")
         ELSE [e.W EXCEPT !.f = <<JsonDumps(event)>>]

append_participant_event(W, event, t, ios) ==
    IF ~W.p.enable_participant_logging THEN W
    ELSE LET e == ensure_participant_log_file(W, t, ios) IN
         IF ~e.ok THEN e.W
         ELSE IF ios = "open_fail" THEN SetErr(e.W, "ERR_WRITE")
         ELSE [e.W EXCEPT !.f = Append(@, JsonDumps(event))]

\* StageManager.get_stall_seconds
get_stall_seconds(p, t) ==
    IF p.stage_start_time <= 0 THEN 0 ELSE Max(0, t - p.stage_start_time)

SetupEvent(p, t) ==
    [t |-> t, participant_id |-> _safe_participant_id(p.participant_id),
     event |-> "setup", chapter |-> p.current_chapter, stage |-> p.current_stage]

log_setup_event(W, t, ios) == append_participant_event(W, SetupEvent(W.p, t), t, ios)

\* a faulty Validate event that reports no stall time
ValidateEventWithoutStall(p, t, ok, reason, message) ==
    [t |-> t, participant_id |-> _safe_participant_id(p.participant_id),
     event |-> "validate", chapter |-> p.current_chapter, stage |-> p.current_stage,
     ok |-> ok, reason |-> reason, message |-> message,
     fail_count |-> p.failed_validate_count, stall_s |-> 0]

ValidateEvent(p, t, ok, reason, message) ==
    [t |-> t, participant_id |-> _safe_participant_id(p.participant_id),
     event |-> "validate", chapter |-> p.current_chapter, stage |-> p.current_stage,
     ok |-> ok, reason |-> reason, message |-> message,
     fail_count |-> p.failed_validate_count, stall_s |-> get_stall_seconds(p, t)]

log_validate_event(W, t, ios, ok, reason, message) ==
    append_participant_event(W, ValidateEvent(W.p, t, ok, reason, message), t, ios)

\* a faulty event that reports the time of the entry as the stall time
FinalizeEventWithElapsed(p, t, completed, stalled_seconds) ==
    [t |-> t, participant_id |-> _safe_participant_id(p.participant_id),
     event |-> "finalize", chapter |-> p.current_chapter, stage |-> p.current_stage,
     completed |-> completed, failed_count |-> p.failed_validate_count,
     stalled_seconds |-> t, last_reason |-> p.last_reason,
     last_message |-> p.last_message, stage_started_at |-> p.stage_start_time]

FinalizeEvent(p, t, completed, stalled_seconds) ==
    [t |-> t, participant_id |-> _safe_participant_id(p.participant_id),
     event |-> "finalize", chapter |-> p.current_chapter, stage |-> p.current_stage,
     completed |-> completed, failed_count |-> p.failed_validate_count,
     stalled_seconds |-> stalled_seconds, last_reason |-> p.last_reason,
     last_message |-> p.last_message, stage_started_at |-> p.stage_start_time]

log_finalize_event(W, t, ios, completed, stalled_seconds) ==
    append_participant_event(W, FinalizeEvent(W.p, t, completed, stalled_seconds), t, ios)

(***************************************************************************)
(* StageManager.finalize_current_run                                       *)
(***************************************************************************)
StageRun(p, t, completed, stalled) ==
    [chapter |-> p.current_chapter, stage |-> p.current_stage,
     completed |-> completed, failed_count |-> p.failed_validate_count,
     stalled_seconds |-> stalled, last_reason |-> p.last_reason,
     last_message |-> p.last_message, started_at |-> p.stage_start_time,
     ended_at |-> t]

\* a faulty finalize, without the early return on an unset start time
finalize_unguarded(W, t, ios, completed) ==
    LET stalled == Max(0, t - W.p.stage_start_time)
        r == [chapter |-> W.p.current_chapter, stage |-> W.p.current_stage,
              completed |-> completed, failed_count |-> W.p.failed_validate_count,
              stalled_seconds |-> stalled, last_reason |-> W.p.last_reason,
              last_message |-> W.p.last_message,
              started_at |-> W.p.stage_start_time, ended_at |-> t]
        W1 == [W EXCEPT !.p.stage_runs = Append(@, r)]
    IN log_finalize_event(W1, t, ios, completed, stalled)

\* capacity of stage_runs
MAX_RUNS == 500

\* a faulty eviction that drops the newest records instead of the oldest
EvictNewest(runs) ==
    IF Len(runs) > MAX_RUNS THEN SubSeq(runs, 1, MAX_RUNS) ELSE runs

\* stage_runs.remove(0) while len(stage_runs) > MAX_RUNS
EvictOldest(runs) ==
    IF Len(runs) > MAX_RUNS THEN SubSeq(runs, Len(runs) - MAX_RUNS + 1, Len(runs))
    ELSE runs

\* a faulty finalize that gives up when the log cannot be written
finalize_only_when_logged(W, t, ios, completed) ==
    IF W.p.stage_start_time <= 0 THEN W
    ELSE IF ios # "ok" THEN SetErr(W, "ERR_WRITE")
    ELSE LET stalled == Max(0, t - W.p.stage_start_time)
             r == StageRun(W.p, t, completed, stalled)
             W1 == [W EXCEPT !.p.stage_runs = EvictOldest(Append(@, r))]
         IN log_finalize_event(W1, t, ios, completed, stalled)

finalize_current_run(W, t, ios, completed) ==
    IF W.p.stage_start_time <= 0 THEN W
    ELSE LET stalled == Max(0, t - W.p.stage_start_time)
             r == StageRun(W.p, t, completed, stalled)
             W1 == [W EXCEPT !.p.stage_runs = EvictOldest(Append(@, r))]
         IN log_finalize_event(W1, t, ios, completed, stalled)

\* a faulty setup that leaves the failure count and the last outcome in place
SetupKeepingOutcome(W1, t, ios, cmd_ok) ==
    LET W2 == IF W1.p.current_chapter = 6 THEN [W1 EXCEPT !.p.current_stage = 1]
              ELSE W1
        W3 == [W2 EXCEPT !.p.stage_complete = FALSE,
                         !.p.monitoring_active = TRUE,
                         !.p.stage_start_time = t]
        W4 == IF ios = "dir_fail" THEN SetErr(W3, "ERR_DIR") ELSE W3
        W5 == IF W4.p.current_chapter = 6 THEN [W4 EXCEPT !.s = FALSE] ELSE W4
    IN IF ~cmd_ok THEN W2 ELSE log_setup_event(W5, t, ios)

\* a faulty setup that clears the counters before it runs the scene commands
SetupClearingFirst(W1, t, ios, cmd_ok) ==
    LET W2 == IF W1.p.current_chapter = 6 THEN [W1 EXCEPT !.p.current_stage = 1]
              ELSE W1
        W3 == [W2 EXCEPT !.p.stage_complete = FALSE,
                         !.p.monitoring_active = TRUE,
                         !.p.failed_validate_count = 0,
                         !.p.stage_start_time = t,
                         !.p.last_result_ok = TRUE,
                         !.p.last_reason = "",
                         !.p.last_message = "",
                         !.p.last_hints = <<>>]
        W4 == IF ios = "dir_fail" THEN SetErr(W3, "ERR_DIR") ELSE W3
        W5 == IF W4.p.current_chapter = 6 THEN [W4 EXCEPT !.s = FALSE] ELSE W4
    IN IF ~cmd_ok THEN W3 ELSE log_setup_event(W5, t, ios)

\* what a setup does after its finalize step
SetupAfterFinalize(W1, t, ios, cmd_ok) ==
    LET W2 == IF W1.p.current_chapter = 6 THEN [W1 EXCEPT !.p.current_stage = 1]
              ELSE W1
        W3 == [W2 EXCEPT !.p.stage_complete = FALSE,
                         !.p.monitoring_active = TRUE,
                         !.p.failed_validate_count = 0,
                         !.p.stage_start_time = t,
                         !.p.last_result_ok = TRUE,
                         !.p.last_reason = "",
                         !.p.last_message = "",
                         !.p.last_hints = <<>>]
        W4 == IF ios = "dir_fail" THEN SetErr(W3, "ERR_DIR") ELSE W3
        W5 == IF W4.p.current_chapter = 6 THEN [W4 EXCEPT !.s = FALSE] ELSE W4
    IN IF ~cmd_ok THEN W2 ELSE log_setup_event(W5, t, ios)

\* a faulty setup that restarts the stage without finalizing the running attempt
setup_without_finalize(W, t, ios, cmd_ok) == SetupAfterFinalize(W, t, ios, cmd_ok)

\* a faulty setup that records the running attempt with its stage_complete flag
setup_finalize_as_validated(W, t, ios, cmd_ok) ==
    SetupAfterFinalize(finalize_current_run(W, t, ios, W.p.stage_complete), t, ios, cmd_ok)

\* a faulty validate that escalates the hints by the count before this failure
validate_escalating_by_old_count(W, t, ios, env) ==
    LET p == W.p
        r == validate_stage(p.current_chapter, p.current_stage, env)
        p1 == [p EXCEPT !.current_stage =
                            validate_stage_current_stage(p.current_chapter, @),
                        !.last_result_ok = r.ok,
                        !.last_reason = r.reason,
                        !.last_message = r.message]
        p2 == IF r.ok
              THEN [p1 EXCEPT !.stage_complete = TRUE,
                              !.failed_validate_count = 0,
                              !.last_hints = <<>>]
              ELSE [p1 EXCEPT !.failed_validate_count = @ + 1,
                              !.last_hints = JoinLines(apply_hint_escalation(
                                  r.hints, p1.failed_validate_count))]
    IN log_validate_event([W EXCEPT !.p = p2], t, ios, r.ok, r.reason, r.message)

(***************************************************************************)
(* Operators of the panel: the whole execute() of each.                    *)
(***************************************************************************)
\* TUTORIAL_OT_setup_stage.execute; cmd_ok = the scene commands raised nothing
setup_stage_execute(W, t, ios, cmd_ok) ==
    SetupAfterFinalize(finalize_current_run(W, t, ios, FALSE), t, ios, cmd_ok)

\* TUTORIAL_OT_validate_stage.execute
\* a faulty validate that restarts the stage timer when the check fails
validate_restarting_timer(W, t, ios, env) ==
    LET p == W.p
        r == validate_stage(p.current_chapter, p.current_stage, env)
        p1 == [p EXCEPT !.current_stage =
                            validate_stage_current_stage(p.current_chapter, @),
                        !.last_result_ok = r.ok,
                        !.last_reason = r.reason,
                        !.last_message = r.message]
        p2 == IF r.ok
              THEN [p1 EXCEPT !.stage_complete = TRUE,
                              !.failed_validate_count = 0,
                              !.last_hints = <<>>]
              ELSE [p1 EXCEPT !.failed_validate_count = @ + 1,
                              !.stage_start_time = t,
                              !.last_hints = JoinLines(apply_hint_escalation(
                                  r.hints, p1.failed_validate_count + 1))]
    IN log_validate_event([W EXCEPT !.p = p2], t, ios, r.ok, r.reason, r.message)

\* a faulty validate that keeps the failure count when the check succeeds
validate_keeping_count(W, t, ios, env) ==
    LET p == W.p
        r == validate_stage(p.current_chapter, p.current_stage, env)
        p1 == [p EXCEPT !.current_stage =
                            validate_stage_current_stage(p.current_chapter, @),
                        !.last_result_ok = r.ok,
                        !.last_reason = r.reason,
                        !.last_message = r.message]
        p2 == IF r.ok
              THEN [p1 EXCEPT !.stage_complete = TRUE,
                              !.last_hints = <<>>]
              ELSE [p1 EXCEPT !.failed_validate_count = @ + 1,
                              !.last_hints = JoinLines(apply_hint_escalation(
                                  r.hints, p1.failed_validate_count + 1))]
    IN log_validate_event([W EXCEPT !.p = p2], t, ios, r.ok, r.reason, r.message)

validate_stage_execute(W, t, ios, env) ==
    LET p == W.p
        r == validate_stage(p.current_chapter, p.current_stage, env)
        p1 == [p EXCEPT !.current_stage =
                            validate_stage_current_stage(p.current_chapter, @),
                        !.last_result_ok = r.ok,
                        !.last_reason = r.reason,
                        !.last_message = r.message]
        p2 == IF r.ok
              THEN [p1 EXCEPT !.stage_complete = TRUE,
                              !.failed_validate_count = 0,
                              !.last_hints = <<>>]
              ELSE [p1 EXCEPT !.failed_validate_count = @ + 1,
                              !.last_hints = JoinLines(apply_hint_escalation(
                                  r.hints, p1.failed_validate_count + 1))]
    IN log_validate_event([W EXCEPT !.p = p2], t, ios, r.ok, r.reason, r.message)

\* lines 1216-1224, and the same lines of reset and goto_chapter
\* a faulty confirmation that leaves the session at the last chapter judged
confirm_without_restore(W, env) ==
    [results |-> [ch \in Chapters |-> validate_stage(ch, 1, env)],
     W |-> [W EXCEPT !.p.current_chapter = LastChapter,
                     !.p.current_stage = validate_stage_current_stage(LastChapter, 1)]]

\* TUTORIAL_OT_confirm_all_chapters.execute: stage 1 of every chapter is
\* judged on the current environment, then chapter and stage are put back
confirm_all_chapters_execute(W, env) ==
    LET results == [ch \in Chapters |-> validate_stage(ch, 1, env)]
        judged == [W EXCEPT !.p.current_chapter = LastChapter,
                            !.p.current_stage =
                                validate_stage_current_stage(LastChapter, 1)]
    IN [results |-> results,
        W |-> [judged EXCEPT !.p.current_chapter = W.p.current_chapter,
                             !.p.current_stage = W.p.current_stage]]

\* a faulty soft check that records a failure the way the validate operator does
check_stage_counting_failures(W, env) ==
    LET p == W.p
        r == validate_stage(p.current_chapter, p.current_stage, env)
    IN IF r.ok
       THEN [W EXCEPT !.p.stage_complete = TRUE]
       ELSE [W EXCEPT !.p.failed_validate_count = @ + 1]

\* the soft check of the monitoring timer
check_stage(W, env) ==
    LET p == W.p
        r == validate_stage(p.current_chapter, p.current_stage, env)
        p1 == [p EXCEPT !.current_stage =
                            validate_stage_current_stage(p.current_chapter, @)]
    IN IF r.ok /\ ~p1.stage_complete
       THEN [W EXCEPT !.p = [p1 EXCEPT !.stage_complete = TRUE]]
       ELSE [W EXCEPT !.p = p1]

\* one timer event of the monitoring operator; due says whether more than
\* 0.2 s have passed since its last soft check
monitoring_modal(W, t, env, due) ==
    IF ~W.p.monitoring_active
    THEN W
    ELSE LET W1 == [W EXCEPT !.p.current_stall_seconds = get_stall_seconds(W.p, t)]
         IN IF due THEN check_stage(W1, env) ELSE W1

ClearStage(p) ==
    [p EXCEPT !.stage_complete = FALSE,
              !.monitoring_active = FALSE,
              !.failed_validate_count = 0,
              !.stage_start_time = 0,
              !.last_result_ok = TRUE,
              !.last_reason = "",
              !.last_message = "",
              !.last_hints = <<>>]

\* a faulty next that steps one stage past the last stage of a chapter
next_stage_off_by_one(W, t, ios) ==
    LET W1 == finalize_current_run(W, t, ios, TRUE)
        p == W1.p
    IN IF p.current_stage <= max_stages_per_chapter(p.current_chapter)
       THEN [W1 EXCEPT !.p = ClearStage([p EXCEPT !.current_stage = @ + 1])]
       ELSE IF p.current_chapter < LastChapter
       THEN [W1 EXCEPT !.p = ClearStage([p EXCEPT !.current_chapter = @ + 1,
                                                  !.current_stage = 1])]
       ELSE [W1 EXCEPT !.s = TRUE, !.p.stage_start_time = 0]

\* TUTORIAL_OT_next_stage.execute
\* a faulty advance whose terminal branch leaves the stage timer running
next_stage_keeping_timer(W, t, ios) ==
    LET W1 == finalize_current_run(W, t, ios, TRUE)
        p == W1.p
    IN IF p.current_stage < max_stages_per_chapter(p.current_chapter)
       THEN [W1 EXCEPT !.p = ClearStage([p EXCEPT !.current_stage = @ + 1])]
       ELSE IF p.current_chapter < LastChapter
       THEN [W1 EXCEPT !.p = ClearStage([p EXCEPT !.current_chapter = @ + 1,
                                                  !.current_stage = 1])]
       ELSE [W1 EXCEPT !.s = TRUE]

next_stage_execute(W, t, ios) ==
    LET W1 == finalize_current_run(W, t, ios, TRUE)
        p == W1.p
    IN IF p.current_stage < max_stages_per_chapter(p.current_chapter)
       THEN [W1 EXCEPT !.p = ClearStage([p EXCEPT !.current_stage = @ + 1])]
       ELSE IF p.current_chapter < LastChapter
       THEN [W1 EXCEPT !.p = ClearStage([p EXCEPT !.current_chapter = @ + 1,
                                                  !.current_stage = 1])]
       ELSE [W1 EXCEPT !.s = TRUE, !.p.stage_start_time = 0]

\* TUTORIAL_OT_reset.execute
reset_execute(W, t, ios) ==
    LET W1 == finalize_current_run(W, t, ios, FALSE)
    IN [W1 EXCEPT !.p = ClearStage([W1.p EXCEPT !.current_chapter = 1,
                                                !.current_stage = 1])]

\* TUTORIAL_OT_goto_chapter.execute
\* a faulty jump that drops the running attempt instead of finalizing it
goto_chapter_without_finalize(W, t, ios, chapter) ==
    [W EXCEPT !.p = ClearStage([W.p EXCEPT !.current_chapter = chapter,
                                           !.current_stage = 1])]

goto_chapter_execute(W, t, ios, chapter) ==
    LET W1 == finalize_current_run(W, t, ios, FALSE)
    IN [W1 EXCEPT !.p = ClearStage([W1.p EXCEPT !.current_chapter = chapter,
                                                !.current_stage = 1])]

(***************************************************************************)
(* The log as the aggregators read it.  A line is the text json.dumps      *)
(* wrote for an event, a prefix of it left by a writer that stopped        *)
(* mid-line, or a blank line.  A prefix that ends between two characters   *)
(* decodes and fails to parse; a prefix that ends inside a multi-byte      *)
(* character (the messages are Japanese text, written with                 *)
(* ensure_ascii=False) is not valid UTF-8.                                 *)
(***************************************************************************)
Truncated(ev) == [text |-> "cut", value |-> ev]
TruncatedInChar(ev) == [text |-> "cut_in_char", value |-> ev]
BlankLine == [text |-> "blank", value |-> [event |-> ""]]

\* the text decodes as UTF-8
Decodes(line) == line.text # "cut_in_char"

\* line.strip() is empty
IsBlank(line) == line.text = "blank"

\* "for line in f" raises UnicodeDecodeError
ReadRaises(lines) == \E i \in DOMAIN lines : ~Decodes(lines[i])

\* the reading loop: blank lines and lines json.loads rejects are skipped
RECURSIVE ReadEvents(_)
ReadEvents(lines) ==
    IF lines = <<>> THEN <<>>
    ELSE LET line == Head(lines)
             rest == ReadEvents(Tail(lines))
         IN IF IsBlank(line) THEN rest
            ELSE IF JsonParses(line) THEN <<JsonLoads(line)>> \o rest
            ELSE rest

\* ev.get(name) is not None
Has(ev, name) == name \in DOMAIN ev

\* what json.loads returns for a line that holds a JSON array: a list, which
\* has no get()
NotAnObject == [json |-> "array"]
IsObject(ev) == ~Has(ev, "json")

\* the fields of ev that hold a string int() rejects, such as "one"
TextFields(ev) == IF Has(ev, "text_fields") THEN ev.text_fields ELSE {}

\* the pass of the grouping loop over ev raises: ev.get on a value that is
\* not a dict (AttributeError), or int(ch), int(st) on a key that is present
\* and not a number (ValueError); kinds are the events the loop keeps
StepRaises(ev, kinds) ==
    \/ ~IsObject(ev)
    \/ /\ TextFields(ev) \cap {"chapter", "stage"} # {}
       /\ Has(ev, "event") /\ ev.event \in kinds
       /\ Has(ev, "chapter") \/ "chapter" \in TextFields(ev)
       /\ Has(ev, "stage") \/ "stage" \in TextFields(ev)

\* the grouping loop has no try: the first pass that raises ends it
GroupRaises(events, kinds) ==
    \E i \in DOMAIN events : StepRaises(events[i], kinds)

\* by_stage = {} and by_stage[key] = row for a key not in it
EmptyDict == [k \in {} |-> 0]
WithKey(by_stage, key, row) ==
    IF key \in DOMAIN by_stage THEN by_stage
    ELSE [k \in DOMAIN by_stage \cup {key} |-> IF k = key THEN row ELSE by_stage[k]]

\* tuple comparison of two (chapter, stage) keys, and sorted(by_stage.keys())
TupleLess(a, b) == a[1] < b[1] \/ (a[1] = b[1] /\ a[2] < b[2])

\* a faulty sort that orders the keys by stage first
RECURSIVE sorted_by_stage_first(_)
sorted_by_stage_first(keys) ==
    IF keys = {} THEN <<>>
    ELSE LET m == CHOOSE k \in keys :
                     \A j \in keys : j = k \/ TupleLess(<<k[2], k[1]>>, <<j[2], j[1]>>)
         IN <<m>> \o sorted_by_stage_first(keys \ {m})

RECURSIVE sorted(_)
sorted(keys) ==
    IF keys = {} THEN <<>>
    ELSE LET m == CHOOSE k \in keys : \A j \in keys : j = k \/ TupleLess(k, j)
         IN <<m>> \o sorted(keys \ {m})

\* f"{x:.3f}" of a time x held in half seconds: its thousandths
Fmt3(h) == h * 500

\* str(b) of a bool
StrBool(b) == IF b THEN "True" ELSE "False"

NoCsv == [encoding |-> "none"]

(***************************************************************************)
(* TUTORIAL_OT_export_stage_summary_csv.execute                            *)
(***************************************************************************)
ExportNewRow(key) ==
    [chapter |-> key[1], stage |-> key[2], failures |-> 0,
     stalled_seconds |-> <<>>, completed |-> <<>>]

\* a faulty pass that adds the stall times of a group up
ExportStepSumming(by_stage, ev) ==
    IF ev.event \notin {"validate", "finalize"} THEN by_stage
    ELSE IF ~Has(ev, "chapter") \/ ~Has(ev, "stage") THEN by_stage
    ELSE LET key == <<ev.chapter, ev.stage>>
             b == WithKey(by_stage, key, ExportNewRow(key))
             r == b[key]
             r1 == IF ev.event = "validate" /\ Has(ev, "ok") /\ ev.ok = FALSE
                   THEN [r EXCEPT !.failures = @ + 1] ELSE r
             r2 == IF ev.event = "finalize"
                   THEN [r1 EXCEPT
                           !.stalled_seconds =
                               IF Has(ev, "stalled_seconds")
                               THEN <<ev.stalled_seconds + (IF @ = <<>> THEN 0 ELSE @[1])>>
                               ELSE @,
                           !.completed =
                               IF Has(ev, "completed") THEN <<ev.completed>> ELSE @]
                   ELSE r1
         IN [b EXCEPT ![key] = r2]

\* one pass of "for ev in events"
ExportStep(by_stage, ev) ==
    IF ev.event \notin {"validate", "finalize"} THEN by_stage
    ELSE IF ~Has(ev, "chapter") \/ ~Has(ev, "stage") THEN by_stage
    ELSE LET key == <<ev.chapter, ev.stage>>
             b == WithKey(by_stage, key, ExportNewRow(key))
             r == b[key]
             r1 == IF ev.event = "validate" /\ Has(ev, "ok") /\ ev.ok = FALSE
                   THEN [r EXCEPT !.failures = @ + 1] ELSE r
             r2 == IF ev.event = "finalize"
                   THEN [r1 EXCEPT
                           !.stalled_seconds =
                               IF Has(ev, "stalled_seconds")
                               THEN <<ev.stalled_seconds>> ELSE @,
                           !.completed =
                               IF Has(ev, "completed") THEN <<ev.completed>> ELSE @]
                   ELSE r1
         IN [b EXCEPT ![key] = r2]

RECURSIVE ExportByStage(_, _)
ExportByStage(by_stage, events) ==
    IF events = <<>> THEN by_stage
    ELSE ExportByStage(ExportStep(by_stage, Head(events)), Tail(events))

\* a faulty total: the largest stall time instead of the sum
ExportTotalAsMaximum(by_stage, keys) ==
    LET vals == {by_stage[k].stalled_seconds[1] :
                    k \in {j \in keys : by_stage[j].stalled_seconds # <<>>}}
    IN IF vals = {} THEN 0 ELSE CHOOSE v \in vals : \A w \in vals : w <= v

\* total_stalled: the sum over the rows that hold a number
RECURSIVE ExportTotal(_, _)
ExportTotal(by_stage, keys) ==
    IF keys = {} THEN 0
    ELSE LET k == CHOOSE j \in keys : TRUE
             v == by_stage[k].stalled_seconds
         IN (IF v # <<>> THEN v[1] ELSE 0) + ExportTotal(by_stage, keys \ {k})

\* the rows csv.writer writes, in sorted key order
ExportRows(by_stage) ==
    LET keys == sorted(DOMAIN by_stage)
    IN [i \in 1..Len(keys) |->
          LET r == by_stage[keys[i]]
          IN [chapter |-> r.chapter, stage |-> r.stage, failures |-> r.failures,
              stalled |-> IF r.stalled_seconds # <<>>
                          THEN <<Fmt3(r.stalled_seconds[1])>> ELSE <<>>,
              completed |-> IF r.completed = <<>> THEN ""
                            ELSE StrBool(r.completed[1])]]

ExportCsv(jsonl_path, by_stage) ==
    [encoding |-> "utf-8-sig",
     file_label |-> "participant_log_file",
     file_name |-> jsonl_path,
     total_label |-> "total_stalled_seconds_finalize_only",
     total |-> Fmt3(ExportTotal(by_stage, DOMAIN by_stage)),
     columns |-> <<"chapter", "stage", "failures",
                   "stalled_seconds_finalize_only", "completed">>,
     rows |-> ExportRows(by_stage)]

ExportResult(W, csv, status) == [W |-> W, csv |-> csv, status |-> status]

\* a faulty export that notes its own run in the log it is about to read
export_logging_itself(W, csv, t, ios) ==
    LET W1 == append_participant_event(W, SetupEvent(W.p, t), t, ios)
    IN IF ios # "ok" \/ W1.p.participant_log_path = NoPath \/ ReadRaises(W1.f)
       THEN ExportResult(W1, csv, "CANCELLED")
       ELSE IF GroupRaises(ReadEvents(W1.f), {"validate", "finalize"})
       THEN ExportResult(W1, csv, "raised")
       ELSE ExportResult(W1,
                ExportCsv(W1.p.participant_log_path,
                          ExportByStage(EmptyDict, ReadEvents(W1.f))),
                "FINISHED")

\* the whole execute(): csv is the summary file as it was before
export_stage_summary_csv_execute(W, csv, t, ios) ==
    LET e == IF W.p.participant_log_path = NoPath
             THEN ensure_participant_log_file(W, t, ios)
             ELSE [ok |-> TRUE, W |-> W]
    IN IF ~e.ok \/ e.W.p.participant_log_path = NoPath
       THEN ExportResult(e.W, csv, "CANCELLED")
       ELSE IF ~LogFileExists(e.W) THEN ExportResult(e.W, csv, "CANCELLED")
       ELSE IF ios = "open_fail" \/ ReadRaises(e.W.f)
       THEN ExportResult(e.W, csv, "CANCELLED")
       ELSE LET events == ReadEvents(e.W.f)
            IN IF GroupRaises(events, {"validate", "finalize"})
               THEN ExportResult(e.W, csv, "raised")
               ELSE ExportResult(e.W,
                        ExportCsv(e.W.p.participant_log_path,
                                  ExportByStage(EmptyDict, events)),
                        "FINISHED")

(***************************************************************************)
(* 23DB000/jsonl_to_stage_summary_csv.py: main(jsonl_path)                 *)
(***************************************************************************)
ScriptNewRow(key) ==
    [chapter |-> key[1], stage |-> key[2], failures |-> 0,
     stalled_seconds |-> 0, completed |-> ""]

\* a faulty pass that counts every validate event as a failure
ScriptStepCountingAll(by_stage, ev) ==
    IF ev.event \notin {"validate", "finalize", "setup"} THEN by_stage
    ELSE IF ~Has(ev, "chapter") \/ ~Has(ev, "stage") THEN by_stage
    ELSE LET key == <<ev.chapter, ev.stage>>
             b == WithKey(by_stage, key, ScriptNewRow(key))
             r == b[key]
             r1 == IF ev.event = "validate"
                   THEN [r EXCEPT !.failures = @ + 1] ELSE r
             r2 == IF ev.event = "finalize"
                   THEN [r1 EXCEPT
                           !.stalled_seconds =
                               IF Has(ev, "stalled_seconds")
                               THEN ev.stalled_seconds ELSE @,
                           !.completed =
                               IF Has(ev, "completed")
                               THEN StrBool(ev.completed) ELSE @]
                   ELSE r1
         IN [b EXCEPT ![key] = r2]

\* one pass of "for ev in rows"
ScriptStep(by_stage, ev) ==
    IF ev.event \notin {"validate", "finalize", "setup"} THEN by_stage
    ELSE IF ~Has(ev, "chapter") \/ ~Has(ev, "stage") THEN by_stage
    ELSE LET key == <<ev.chapter, ev.stage>>
             b == WithKey(by_stage, key, ScriptNewRow(key))
             r == b[key]
             r1 == IF ev.event = "validate" /\ Has(ev, "ok") /\ ev.ok = FALSE
                   THEN [r EXCEPT !.failures = @ + 1] ELSE r
             r2 == IF ev.event = "finalize"
                   THEN [r1 EXCEPT
                           !.stalled_seconds =
                               IF Has(ev, "stalled_seconds")
                               THEN ev.stalled_seconds ELSE @,
                           !.completed =
                               IF Has(ev, "completed")
                               THEN StrBool(ev.completed) ELSE @]
                   ELSE r1
         IN [b EXCEPT ![key] = r2]

RECURSIVE ScriptByStage(_, _)
ScriptByStage(by_stage, events) ==
    IF events = <<>> THEN by_stage
    ELSE ScriptByStage(ScriptStep(by_stage, Head(events)), Tail(events))

\* sum(by_stage[k]["stalled_seconds"] for k in stage_keys)
RECURSIVE ScriptTotal(_, _)
ScriptTotal(by_stage, stage_keys) ==
    IF stage_keys = <<>> THEN 0
    ELSE by_stage[Head(stage_keys)].stalled_seconds
            + ScriptTotal(by_stage, Tail(stage_keys))

ScriptCsv(jsonl_path, by_stage) ==
    LET stage_keys == sorted(DOMAIN by_stage)
    IN [encoding |-> "utf-8",
        file_label |-> "participant_file",
        file_name |-> jsonl_path,
        total_label |-> "total_stalled_seconds",
        total |-> Fmt3(ScriptTotal(by_stage, stage_keys)),
        columns |-> <<"chapter", "stage", "failures", "stalled_seconds", "completed">>,
        rows |-> [i \in 1..Len(stage_keys) |->
                    LET r == by_stage[stage_keys[i]]
                    IN [chapter |-> r.chapter, stage |-> r.stage,
                        failures |-> r.failures,
                        stalled |-> <<Fmt3(r.stalled_seconds)>>,
                        completed |-> r.completed]]]

\* main(jsonl_path) on a file holding lines; a raise leaves the summary as it was
main(jsonl_path, lines, csv) ==
    IF jsonl_path = NoPath THEN [csv |-> csv, status |-> "FileNotFoundError"]
    ELSE IF ReadRaises(lines) THEN [csv |-> csv, status |-> "UnicodeDecodeError"]
    ELSE LET rows == ReadEvents(lines)
         IN IF GroupRaises(rows, {"validate", "finalize", "setup"})
            THEN [csv |-> csv, status |-> "raised"]
            ELSE [csv |-> ScriptCsv(jsonl_path, ScriptByStage(EmptyDict, rows)),
                  status |-> "written"]

(***************************************************************************)
(* The session as a state machine.                                         *)
(***************************************************************************)
\* what the file system does during one operator: works, refuses to make the
\* log directory, or refuses to open the log file
IoStates == {"ok", "dir_fail", "open_fail"}
Pids == {<<" ">>, <<"p", "/", "1">>}
\* the chapter buttons pressed in Spec (the panel offers 1..6)
GotoChapters == {2, 6}

\* TUTORIAL_PG_Properties defaults
InitProps ==
    [current_chapter |-> 1, current_stage |-> 1, stage_complete |-> FALSE,
     monitoring_active |-> FALSE, failed_validate_count |-> 0,
     stage_start_time |-> 0, last_result_ok |-> TRUE, last_reason |-> "",
     last_message |-> "", last_hints |-> <<>>, stage_runs |-> <<>>,
     current_stall_seconds |-> 0, enable_participant_logging |-> TRUE,
     participant_id |-> <<>>, participant_log_path |-> NoPath,
     participant_log_error |-> ""]

\* no call of validate_stage outside an operator is under way
NoEvaluation == [key |-> <<1, 1>>, env |-> EnvDefault, outcomes |-> <<>>]

\* no call of apply_hint_escalation is under way
NoHintCall == [hints |-> <<>>, n |-> 0, returned |-> FALSE, escalated |-> <<>>]

Init ==
    /\ \E pid \in Pids, en \in BOOLEAN :
          props = [InitProps EXCEPT !.participant_id = pid,
                                    !.enable_participant_logging = en]
    /\ logfile = <<>>
    /\ csv_file = NoCsv
    /\ now = 1
    /\ nops = 0
    /\ nfaults = 0
    /\ scene_off = FALSE
    /\ hint_call = NoHintCall
    /\ evaluation = NoEvaluation

\* the context an operator runs in: the properties, the log file, the scene
Here == [p |-> props, f |-> logfile, s |-> scene_off]

Becomes(W) ==
    /\ props' = W.p
    /\ logfile' = W.f
    /\ scene_off' = W.s
    /\ nops' = nops + 1
    /\ UNCHANGED <<csv_file, now, hint_call, evaluation>>

\* the faults an operator invocation meets
Faults(io, cmd_ok) == (IF io = "ok" THEN 0 ELSE 1) + (IF cmd_ok THEN 0 ELSE 1)

Meets(io, cmd_ok) ==
    /\ nfaults + Faults(io, cmd_ok) <= MaxFaults
    /\ nfaults' = nfaults + Faults(io, cmd_ok)

SetupStage ==
    /\ nops < MaxOps
    /\ \E cmd_ok \in BOOLEAN, io \in IoStates :
          /\ Meets(io, cmd_ok)
          /\ Becomes(setup_stage_execute(Here, now, io, cmd_ok))

ValidateStage ==
    /\ nops < MaxOps
    /\ \E env \in Snapshots(props.current_chapter, props.current_stage),
          io \in IoStates :
          /\ Meets(io, TRUE)
          /\ Becomes(validate_stage_execute(Here, now, io, env))

NextStage ==
    /\ nops < MaxOps
    /\ \E io \in IoStates :
          /\ Meets(io, TRUE)
          /\ Becomes(next_stage_execute(Here, now, io))

Reset ==
    /\ nops < MaxOps
    /\ \E io \in IoStates :
          /\ Meets(io, TRUE)
          /\ Becomes(reset_execute(Here, now, io))

GotoChapter ==
    /\ nops < MaxOps
    /\ \E chapter \in GotoChapters, io \in IoStates :
          /\ Meets(io, TRUE)
          /\ Becomes(goto_chapter_execute(Here, now, io, chapter))

\* the monitoring timer fires
MonitoringTick ==
    /\ \E env \in Snapshots(props.current_chapter, props.current_stage),
          due \in BOOLEAN :
          LET W == monitoring_modal(Here, now, env, due)
          IN /\ props' = W.p
             /\ logfile' = W.f
             /\ scene_off' = W.s
    /\ UNCHANGED <<csv_file, now, nops, nfaults, hint_call, evaluation>>

\* time passes between two operators
Tick ==
    /\ now < MaxTime
    /\ now' = now + 1
    /\ UNCHANGED <<props, logfile, csv_file, nops, nfaults, scene_off, hint_call, evaluation>>

Next ==
    \/ SetupStage
    \/ ValidateStage
    \/ NextStage
    \/ Reset
    \/ GotoChapter
    \/ Tick

Spec == Init /\ [][Next]_vars

\* the stages worked through in order: set up, validated, advanced
NextInOrder ==
    \/ SetupStage
    \/ ValidateStage
    \/ NextStage
    \/ Tick

SpecStage == Init /\ [][NextInOrder]_vars

\* the session whose chapters are entered by advancing and by jumping
NextChapters ==
    \/ SetupStage
    \/ ValidateStage
    \/ NextStage
    \/ GotoChapter
    \/ Tick

SpecChapters == Init /\ [][NextChapters]_vars

\* the session with its monitoring timer
NextMonitor ==
    \/ SetupStage
    \/ ValidateStage
    \/ NextStage
    \/ GotoChapter
    \/ MonitoringTick
    \/ Tick

SpecMonitor == Init /\ [][NextMonitor]_vars

(***************************************************************************)
(* The session from every stage the walk reaches: "next" pressed without a *)
(* setup leaves nothing behind but the key, so the session can stand at    *)
(* any key of the curriculum with every other property at its default.     *)
(* From there every operator of the panel is pressed, the chapter buttons  *)
(* 1..6 and the all-chapters confirmation included.  Logging is switched   *)
(* off: no operator reads the log to decide the key.                       *)
(***************************************************************************)
InitKeys ==
    /\ \E k \in AllKeys :
          props = [InitProps EXCEPT !.current_chapter = k[1],
                                    !.current_stage = k[2],
                                    !.enable_participant_logging = FALSE]
    /\ logfile = <<>>
    /\ csv_file = NoCsv
    /\ now = 1
    /\ nops = 0
    /\ nfaults = 0
    /\ scene_off = FALSE
    /\ hint_call = NoHintCall
    /\ evaluation = NoEvaluation

GotoAnyChapter ==
    /\ nops < MaxOps
    /\ \E chapter \in Chapters, io \in IoStates :
          /\ Meets(io, TRUE)
          /\ Becomes(goto_chapter_execute(Here, now, io, chapter))

ConfirmAllChapters ==
    /\ nops < MaxOps
    /\ \E env \in Snapshots(props.current_chapter, props.current_stage) :
          Becomes(confirm_all_chapters_execute(Here, env).W)
    /\ UNCHANGED nfaults

NextKeys ==
    \/ SetupStage
    \/ ValidateStage
    \/ NextStage
    \/ Reset
    \/ GotoAnyChapter
    \/ MonitoringTick
    \/ ConfirmAllChapters

SpecKeys == InitKeys /\ [][NextKeys]_vars

(***************************************************************************)
(* A session that logs: logging is on, the participant id is set and the   *)
(* file system works throughout.  The scene commands of a setup may still  *)
(* fail.                                                                   *)
(***************************************************************************)
InitLogged ==
    /\ props = [InitProps EXCEPT !.participant_id = <<"p", "/", "1">>,
                                 !.enable_participant_logging = TRUE]
    /\ logfile = <<>>
    /\ csv_file = NoCsv
    /\ now = 1
    /\ nops = 0
    /\ nfaults = 0
    /\ scene_off = FALSE
    /\ hint_call = NoHintCall
    /\ evaluation = NoEvaluation

LoggedSetupStage ==
    /\ nops < MaxOps
    /\ \E cmd_ok \in BOOLEAN :
          /\ Meets("ok", cmd_ok)
          /\ Becomes(setup_stage_execute(Here, now, "ok", cmd_ok))

LoggedValidateStage ==
    /\ nops < MaxOps
    /\ \E env \in Snapshots(props.current_chapter, props.current_stage) :
          Becomes(validate_stage_execute(Here, now, "ok", env))
    /\ UNCHANGED nfaults

LoggedNextStage ==
    /\ nops < MaxOps
    /\ Becomes(next_stage_execute(Here, now, "ok"))
    /\ UNCHANGED nfaults

LoggedReset ==
    /\ nops < MaxOps
    /\ Becomes(reset_execute(Here, now, "ok"))
    /\ UNCHANGED nfaults

LoggedGotoChapter ==
    /\ nops < MaxOps
    /\ \E chapter \in GotoChapters :
          Becomes(goto_chapter_execute(Here, now, "ok", chapter))
    /\ UNCHANGED nfaults

NextLogged ==
    \/ LoggedSetupStage
    \/ LoggedValidateStage
    \/ LoggedNextStage
    \/ LoggedReset
    \/ LoggedGotoChapter
    \/ Tick

SpecLogged == InitLogged /\ [][NextLogged]_vars

(***************************************************************************)
(* A session in which the participant id field of the panel is edited      *)
(* between operators.                                                      *)
(***************************************************************************)
EditedPids == Pids \cup {<<"q">>}

\* the participant_id property is set from the panel: it has no update hook
EditParticipantId ==
    /\ nops < MaxOps
    /\ \E pid \in EditedPids :
          /\ pid # props.participant_id
          /\ props' = [props EXCEPT !.participant_id = pid]
    /\ nops' = nops + 1
    /\ UNCHANGED <<logfile, csv_file, now, nfaults, scene_off, hint_call, evaluation>>

NextParticipant ==
    \/ SetupStage
    \/ ValidateStage
    \/ NextStage
    \/ EditParticipantId
    \/ Tick

SpecParticipant == Init /\ [][NextParticipant]_vars

(***************************************************************************)
(* A stage of any chapter tried again and again: a chapter is picked,      *)
(* the stage set up and validated, never advanced.                         *)
(***************************************************************************)
NextRetry ==
    \/ SetupStage
    \/ ValidateStage
    \/ GotoChapter
    \/ Tick

SpecRetry == Init /\ [][NextRetry]_vars

(***************************************************************************)
(* The curriculum walk: "next" pressed again and again from (1,1).         *)
(***************************************************************************)
WalkNextStage ==
    /\ nops < MaxWalk
    /\ \E io \in IoStates :
          /\ Meets(io, TRUE)
          /\ Becomes(next_stage_execute(Here, now, io))

NextWalk ==
    \/ WalkNextStage
    \/ Tick

SpecWalk == Init /\ [][NextWalk]_vars

(***************************************************************************)
(* A long session: the stage is set up again and again, one clock unit     *)
(* passing after each setup, so that every run recorded has its own        *)
(* started_at.                                                             *)
(***************************************************************************)
RestartStage ==
    /\ nops < MaxRestarts
    /\ LET W == setup_stage_execute(Here, now, "ok", TRUE)
       IN /\ props' = W.p
          /\ logfile' = W.f
          /\ scene_off' = W.s
    /\ now' = now + 1
    /\ nops' = nops + 1
    /\ UNCHANGED <<csv_file, nfaults, hint_call, evaluation>>

NextHistory == RestartStage

SpecHistory == Init /\ [][NextHistory]_vars

(***************************************************************************)
(* The aggregators at work on a log some earlier session left behind:      *)
(* the export operator of the panel and the standalone script, run in any  *)
(* order and any number of times.                                          *)
(***************************************************************************)
AggKeys == {<<1, 1>>, <<1, 2>>}

AggPid == <<"p", "1">>

\* the session as it stood when it wrote an event for key
AggProps(key) ==
    [InitProps EXCEPT !.participant_id = AggPid,
                      !.current_chapter = key[1],
                      !.current_stage = key[2],
                      !.stage_start_time = 1]

\* a validate event of stage (1,1) as log_validate_event writes it
AggValidate(ok) ==
    LET r == validate_stage(1, 1, [EnvDefault EXCEPT !.obj = IF ok THEN "Cube" ELSE "None"])
    IN ValidateEvent(AggProps(<<1, 1>>), 2, r.ok, r.reason, r.message)

\* stall times of 3.0 s and 12.5 s, in half seconds
AggStalls == {6, 25}

AggEvents ==
    {AggValidate(ok) : ok \in BOOLEAN}
        \cup {FinalizeEvent(AggProps(<<1, 1>>), 3, c, h) : c \in BOOLEAN, h \in AggStalls}
        \cup {FinalizeEvent(AggProps(<<1, 2>>), 3, TRUE, 25)}
        \cup {SetupEvent(AggProps(k), 1) : k \in AggKeys}
        \cup {[t |-> 1, participant_id |-> AggPid, event |-> "session_start"]}

\* what a writer that stopped mid-line leaves of a validate event
BrokenLines == {Truncated(AggValidate(FALSE)), TruncatedInChar(AggValidate(FALSE))}

AggLines == {JsonDumps(ev) : ev \in AggEvents} \cup BrokenLines \cup {BlankLine}

\* the log of the retried stage: two failures and an abandoned attempt of
\* 12.5 s, then a new setup, a success and a completed attempt of 3.0 s
ScenarioLog ==
    <<JsonDumps(AggValidate(FALSE)),
      JsonDumps(AggValidate(FALSE)),
      JsonDumps(FinalizeEvent(AggProps(<<1, 1>>), 3, FALSE, 25)),
      JsonDumps(SetupEvent(AggProps(<<1, 1>>), 1)),
      JsonDumps(AggValidate(TRUE)),
      JsonDumps(FinalizeEvent(AggProps(<<1, 1>>), 3, TRUE, 6))>>

AggLogs ==
    UNION {[1..n -> AggLines] : n \in 0..MaxLogLen} \cup {ScenarioLog}

\* a session whose log file exists and holds any of the logs, or a fresh
\* session with no log file yet
(***************************************************************************)
(* StageManager.validate_stage on its own: the session is at any key with  *)
(* a stage number up to MaxStage, mapped or not, in the middle of an       *)
(* attempt; the environment is one snapshot, and validate_stage is called  *)
(* on it up to MaxCalls times.                                             *)
(***************************************************************************)
EvaluatedKeys == Chapters \X (1..MaxStage)

InitEvaluate ==
    /\ \E k \in EvaluatedKeys, c \in BOOLEAN, n \in 0..1 :
          /\ props = [InitProps EXCEPT !.current_chapter = k[1],
                                       !.current_stage = k[2],
                                       !.stage_complete = c,
                                       !.failed_validate_count = n,
                                       !.stage_start_time = 1,
                                       !.monitoring_active = TRUE]
          /\ \E env \in Snapshots(k[1], k[2]) :
                evaluation = [key |-> k, env |-> env, outcomes |-> <<>>]
    /\ logfile = <<>>
    /\ csv_file = NoCsv
    /\ now = 1
    /\ nops = 0
    /\ nfaults = 0
    /\ scene_off = FALSE
    /\ hint_call = NoHintCall

\* ok, message, reason, hints = StageManager.validate_stage(context)
Evaluate ==
    /\ Len(evaluation.outcomes) < MaxCalls
    /\ evaluation' = [evaluation EXCEPT !.outcomes =
          Append(@, validate_stage(props.current_chapter, props.current_stage,
                                   evaluation.env))]
    /\ props' = [props EXCEPT !.current_stage =
                     validate_stage_current_stage(props.current_chapter, @)]
    /\ UNCHANGED <<logfile, csv_file, now, nops, nfaults, scene_off, hint_call>>

NextEvaluate == Evaluate

SpecEvaluate == InitEvaluate /\ [][NextEvaluate]_vars

(***************************************************************************)
(* apply_hint_escalation on its own: a list of up to MaxHints hints and a  *)
(* failure count are drawn, and the call returns.                          *)
(***************************************************************************)
HintTexts == {"h_a", "h_b"}
HintLists == UNION {[1..k -> HintTexts] : k \in 0..MaxHints}
FailureCounts == (0 - 1)..MaxCount

InitHints ==
    /\ props = InitProps
    /\ logfile = <<>>
    /\ csv_file = NoCsv
    /\ now = 1
    /\ nops = 0
    /\ nfaults = 0
    /\ scene_off = FALSE
    /\ evaluation = NoEvaluation
    /\ \E hints \in HintLists, n \in FailureCounts :
          hint_call = [hints |-> hints, n |-> n, returned |-> FALSE,
                       escalated |-> <<>>]

ApplyHintEscalation ==
    /\ ~hint_call.returned
    /\ hint_call' = [hint_call EXCEPT
                        !.returned = TRUE,
                        !.escalated = apply_hint_escalation(hint_call.hints,
                                                            hint_call.n)]
    /\ UNCHANGED <<props, logfile, csv_file, now, nops, nfaults, scene_off, evaluation>>

NextHints == ApplyHintEscalation

SpecHints == InitHints /\ [][NextHints]_vars

InitAgg ==
    /\ \/ /\ props = [InitProps EXCEPT !.participant_id = AggPid,
                                       !.participant_log_path = LogPath(AggPid, 1)]
          /\ logfile \in AggLogs
       \/ /\ \E pid \in Pids : props = [InitProps EXCEPT !.participant_id = pid]
          /\ logfile = <<>>
    /\ csv_file = NoCsv
    /\ now = 1
    /\ nops = 0
    /\ nfaults = 0
    /\ scene_off = FALSE
    /\ hint_call = NoHintCall
    /\ evaluation = NoEvaluation

ExportStageSummaryCsv ==
    /\ nops < MaxOps
    /\ \E io \in IoStates :
          LET r == export_stage_summary_csv_execute(Here, csv_file, now, io)
          IN /\ props' = r.W.p
             /\ logfile' = r.W.f
             /\ csv_file' = r.csv
    /\ nops' = nops + 1
    /\ UNCHANGED <<now, nfaults, scene_off, hint_call, evaluation>>

RunScript ==
    /\ nops < MaxOps
    /\ csv_file' = main(props.participant_log_path, logfile, csv_file).csv
    /\ nops' = nops + 1
    /\ UNCHANGED <<props, logfile, now, nfaults, scene_off, hint_call, evaluation>>

NextAgg ==
    \/ ExportStageSummaryCsv
    \/ RunScript
    \/ Tick

SpecAgg == InitAgg /\ [][NextAgg]_vars

(***************************************************************************)
(* The aggregators at work on logs whose stages, of two chapters, come in  *)
(* any order.                                                              *)
(***************************************************************************)
OrderKeys == {<<1, 1>>, <<1, 2>>, <<2, 1>>}

\* a log whose stages come out of order: chapter 2 finalized before the
\* stages of chapter 1, stage 2 before stage 1
ShuffledLog ==
    <<JsonDumps(FinalizeEvent(AggProps(<<2, 1>>), 3, TRUE, 6)),
      JsonDumps(FinalizeEvent(AggProps(<<1, 2>>), 3, TRUE, 25)),
      JsonDumps(AggValidate(FALSE)),
      JsonDumps(FinalizeEvent(AggProps(<<1, 1>>), 3, FALSE, 6))>>

OrderLines ==
    {JsonDumps(FinalizeEvent(AggProps(k), 3, TRUE, 6)) : k \in OrderKeys}
        \cup {JsonDumps(SetupEvent(AggProps(k), 1)) : k \in {<<1, 2>>, <<2, 1>>}}
        \cup {JsonDumps(AggValidate(FALSE))}

OrderLogs == UNION {[1..n -> OrderLines] : n \in 0..MaxLogLen} \cup {ShuffledLog}

InitOrder ==
    /\ props = [InitProps EXCEPT !.participant_id = AggPid,
                                 !.participant_log_path = LogPath(AggPid, 1)]
    /\ logfile \in OrderLogs
    /\ csv_file = NoCsv
    /\ now = 1
    /\ nops = 0
    /\ nfaults = 0
    /\ scene_off = FALSE
    /\ hint_call = NoHintCall
    /\ evaluation = NoEvaluation

NextOrder ==
    \/ ExportStageSummaryCsv
    \/ RunScript
    \/ Tick

SpecOrder == InitOrder /\ [][NextOrder]_vars

(***************************************************************************)
(* The aggregators at work on a log that holds more than the events the    *)
(* session writes: a line cut short, a JSON array, objects without a       *)
(* chapter, objects whose chapter is text.                                 *)
(***************************************************************************)
\* a validate event that lost its chapter
WithoutChapter ==
    [t |-> 2, participant_id |-> AggPid, event |-> "validate", stage |-> 1, ok |-> FALSE]

\* an event of the given kind whose chapter is the text "one"
WithTextChapter(kind) ==
    [t |-> 2, participant_id |-> AggPid, event |-> kind, stage |-> 1,
     text_fields |-> {"chapter"}]

AnyLines ==
    {JsonDumps(AggValidate(FALSE)),
     JsonDumps(FinalizeEvent(AggProps(<<1, 1>>), 3, TRUE, 6)),
     Truncated(AggValidate(FALSE)),
     BlankLine,
     JsonDumps(NotAnObject),
     JsonDumps(WithoutChapter),
     JsonDumps(WithTextChapter("validate")),
     JsonDumps(WithTextChapter("setup")),
     JsonDumps(WithTextChapter("session_start"))}

AnyLogs == UNION {[1..n -> AnyLines] : n \in 0..MaxLogLen}

InitAnyLog ==
    /\ props = [InitProps EXCEPT !.participant_id = AggPid,
                                 !.participant_log_path = LogPath(AggPid, 1)]
    /\ logfile \in AnyLogs
    /\ csv_file = NoCsv
    /\ now = 1
    /\ nops = 0
    /\ nfaults = 0
    /\ scene_off = FALSE
    /\ hint_call = NoHintCall
    /\ evaluation = NoEvaluation

NextAnyLog ==
    \/ ExportStageSummaryCsv
    \/ RunScript
    \/ Tick

SpecAnyLog == InitAnyLog /\ [][NextAnyLog]_vars

\* the operators that can create the participant log file: those that log
\* an event, and the export
NextLogFile ==
    \/ SetupStage
    \/ ValidateStage
    \/ NextStage
    \/ ExportStageSummaryCsv
    \/ Tick

SpecLogFile == Init /\ [][NextLogFile]_vars

(***************************************************************************)
(* Stage lifecycle properties.  Each is stated of every reachable state    *)
(* and of what an operator does when it is invoked there.                  *)
(***************************************************************************)
\* the event log accepts a line: logging is on, the id is usable, the file
\* system works
LogWorks(p, ios) ==
    /\ p.enable_participant_logging
    /\ _safe_participant_id(p.participant_id) # <<>>
    /\ ios = "ok"

Kinds(lines) == [i \in 1..Len(lines) |-> lines[i].value.event]
IsFinalizeLine(l) == l.value.event = "finalize"
FinalizeLines(lines) == SelectSeq(lines, IsFinalizeLine)

\* the lines an operator appended to the log f1, giving f2, without the
\* session_start line of a file it created
NewLines(f1, f2) == SubSeq(f2, Len(f1) + 1, Len(f2))
NewEventLines(f1, f2) ==
    LET new == NewLines(f1, f2)
    IN IF new # <<>> /\ new[1].value.event = "session_start" THEN Tail(new) ELSE new

LastRun(p) == p.stage_runs[Len(p.stage_runs)]

\* runs2 is runs1 with one record appended and, over capacity, the oldest dropped
AppendedRun(runs1, runs2, cap) ==
    LET n == Len(runs1)
        m == Len(runs2)
    IN /\ m = (IF n + 1 <= cap THEN n + 1 ELSE cap)
       /\ \A i \in 1..(m - 1) : runs2[i] = runs1[n + 1 - m + i]

\* P holds of what next, reset and goto_chapter each make of the current state
AfterEachNav(io, P(_)) ==
    /\ P(next_stage_execute(Here, now, io))
    /\ P(reset_execute(Here, now, io))
    /\ \A chapter \in GotoChapters : P(goto_chapter_execute(Here, now, io, chapter))

\* C1: a setup that completes while stage_start_time is set has, in the same
\* call and before it overwrites the start time, recorded a finalize for the
\* old start: a StageRun whose started_at is the old start is appended as the
\* newest record of the history and, when the event log accepts lines, exactly
\* one Finalize event carrying the old start is written, before the Setup event.
C1_FinalizeBeforeRestart ==
    \A io \in IoStates :
        props.stage_start_time > 0 =>
            LET W == setup_stage_execute(Here, now, io, TRUE)
                ev == NewEventLines(logfile, W.f)
            IN /\ W.p.stage_start_time = now
               /\ W.p.stage_runs # <<>>
               /\ LastRun(W.p).started_at = props.stage_start_time
               /\ AppendedRun(props.stage_runs, W.p.stage_runs, MAX_RUNS)
               /\ LogWorks(props, io) =>
                     /\ Kinds(ev) = <<"finalize", "setup">>
                     /\ ev[1].value.stage_started_at = props.stage_start_time

\* a completed setup followed a failed one of the same attempt: the attempt
\* started at 1 was finalized by both, and only then was the start overwritten
C1_Witness ==
    /\ nops = 3
    /\ Len(props.stage_runs) = 2
    /\ props.stage_runs[1].started_at = 1
    /\ props.stage_runs[2].started_at = 1
    /\ props.stage_start_time = 2
    /\ Len(logfile) = 5
    /\ Kinds(logfile) = <<"session_start", "setup", "finalize", "finalize", "setup">>

\* C2: finalize with stage_start_time unset changes nothing: no StageRun is
\* appended and no Finalize event written.  Every next / reset / goto_chapter
\* leaves stage_start_time unset, and invoked with it unset leaves the history
\* and the log as they were; a setup invoked with it unset appends no StageRun
\* and writes no Finalize event.
C2_FinalizeNoOp ==
    \A io \in IoStates :
        /\ AfterEachNav(io, LAMBDA W :
              /\ W.p.stage_start_time = 0
              /\ props.stage_start_time <= 0 =>
                    /\ W.p.stage_runs = props.stage_runs
                    /\ W.f = logfile)
        /\ props.stage_start_time <= 0 =>
              /\ \A completed \in BOOLEAN :
                    finalize_current_run(Here, now, io, completed) = Here
              /\ \A cmd_ok \in BOOLEAN :
                    LET W == setup_stage_execute(Here, now, io, cmd_ok)
                    IN /\ W.p.stage_runs = props.stage_runs
                       /\ FinalizeLines(NewLines(logfile, W.f)) = <<>>

\* setup at (1,1), next, next: the second next found the start unset
C2_Witness ==
    /\ nops = 3
    /\ props.current_chapter = 1
    /\ props.current_stage = 3
    /\ props.stage_start_time = 0
    /\ Len(props.stage_runs) = 1
    /\ props.stage_runs[1].chapter = 1
    /\ props.stage_runs[1].stage = 1
    /\ props.stage_runs[1].completed
    /\ Len(FinalizeLines(logfile)) = 1

\* C3: a setup invoked while stage_start_time is set, whether or not its
\* scene commands succeed and whether or not the stage was already validated
\* successfully, appends exactly one StageRun, with completed = FALSE and the
\* current key; when the event log accepts lines it writes exactly one
\* Finalize event, with completed = FALSE and the current key, and the Setup
\* event of the new attempt comes after it.
C3_SetupAbandons ==
    \A io \in IoStates, cmd_ok \in BOOLEAN :
        props.stage_start_time > 0 =>
            LET W == setup_stage_execute(Here, now, io, cmd_ok)
                ev == NewEventLines(logfile, W.f)
            IN /\ AppendedRun(props.stage_runs, W.p.stage_runs, MAX_RUNS)
               /\ W.p.stage_runs # <<>>
               /\ ~LastRun(W.p).completed
               /\ LastRun(W.p).chapter = props.current_chapter
               /\ LastRun(W.p).stage = props.current_stage
               /\ LogWorks(props, io) =>
                     /\ Kinds(ev) = (IF cmd_ok THEN <<"finalize", "setup">>
                                     ELSE <<"finalize">>)
                     /\ ~ev[1].value.completed
                     /\ ev[1].value.chapter = props.current_chapter
                     /\ ev[1].value.stage = props.current_stage

\* setup, successful validate, setup again: the validated stage is recorded
\* as abandoned and the Finalize line is followed by the new Setup line
C3_Witness ==
    /\ nops = 3
    /\ Len(props.stage_runs) = 1
    /\ ~props.stage_runs[1].completed
    /\ props.stage_runs[1].last_reason = "OK"
    /\ props.stage_start_time > 0
    /\ Kinds(logfile) = <<"session_start", "setup", "validate", "finalize", "setup">>
    /\ logfile[3].value.ok
    /\ ~logfile[4].value.completed

\* the stage table as the specification gives it, and its keys in order
ClaimStageCount == <<4, 4, 6, 4, 5, 1>>
ClaimKeys == {k \in (1..6) \X (1..6) : k[2] <= ClaimStageCount[k[1]]}
KeyLess(a, b) == a[1] < b[1] \/ (a[1] = b[1] /\ a[2] < b[2])
KeyRank(k) == Cardinality({j \in ClaimKeys : KeyLess(j, k)})
CurKey == <<props.current_chapter, props.current_stage>>

\* C4: next moves (c,s) to (c,s+1) while s is below the chapter's stage count
\* and to (c+1,1) otherwise, the last key (6,1) staying; after n <= 23
\* presses of next from (1,1) the current key is the n-th successor of (1,1)
\* in ascending (chapter, stage) order, so the 23 presses visit the 24 keys
\* in order, each once, and end at (6,1).
C4_AdvanceOrder ==
    /\ Cardinality(ClaimKeys) = 24
    /\ CurKey \in ClaimKeys
    /\ KeyRank(CurKey) = (IF nops <= 23 THEN nops ELSE 23)
    /\ \A io \in IoStates :
          LET p == next_stage_execute(Here, now, io).p
              c == props.current_chapter
              s == props.current_stage
          IN <<p.current_chapter, p.current_stage>> =
                (IF s < ClaimStageCount[c] THEN <<c, s + 1>>
                 ELSE IF c < 6 THEN <<c + 1, 1>>
                 ELSE <<c, s>>)

\* 23 presses of next from (1,1) have arrived at (6,1)
C4_Witness ==
    /\ nops = 23
    /\ CurKey = <<6, 1>>

\* C5: validate stores the evaluation result (ok, reason, message); when it
\* succeeded stage_complete is TRUE, failed_validate_count is 0 and the hints
\* are empty; when it failed failed_validate_count is one more than before and
\* the hints are the escalation of the outcome's hints for the new count.
C5_ValidateUpdates ==
    \A env \in Snapshots(props.current_chapter, props.current_stage) :
    LET r == validate_stage(props.current_chapter, props.current_stage, env) IN
    \A io \in IoStates :
        LET p == validate_stage_execute(Here, now, io, env).p
        IN /\ p.last_result_ok = r.ok
           /\ p.last_reason = r.reason
           /\ p.last_message = r.message
           /\ r.ok => /\ p.stage_complete
                      /\ p.failed_validate_count = 0
                      /\ p.last_hints = <<>>
           /\ ~r.ok =>
                 /\ p.failed_validate_count = props.failed_validate_count + 1
                 /\ p.last_hints = JoinLines(apply_hint_escalation(
                        r.hints, props.failed_validate_count + 1))

\* the second failed validate in a row on a stage with two hints: both hints
\* are stored
C5_Witness ==
    /\ props.failed_validate_count = 2
    /\ ~props.last_result_ok
    /\ props.last_reason = "RENDER_NOT_SAVED"
    /\ props.last_hints = <<"h_f12_save_as", "\n", "h_helper_button">>

(***************************************************************************)
(* Aggregation properties.  Each is stated of the summary either           *)
(* aggregator writes from the log as it stands in a reachable state.       *)
(***************************************************************************)
\* line i of lines is an event of the kind and of the group key
IsEventOf(lines, i, kind, key) ==
    /\ JsonParses(lines[i])
    /\ lines[i].value.event = kind
    /\ lines[i].value.chapter = key[1]
    /\ lines[i].value.stage = key[2]

FinalizesOf(lines, key) == {i \in DOMAIN lines : IsEventOf(lines, i, "finalize", key)}
FailuresOf(lines, key) ==
    {i \in DOMAIN lines : IsEventOf(lines, i, "validate", key) /\ ~lines[i].value.ok}
LastOf(S) == CHOOSE i \in S : \A j \in S : j <= i
RowKey(row) == <<row.chapter, row.stage>>
RowKeys(csv) == {RowKey(csv.rows[i]) : i \in DOMAIN csv.rows}

\* the summaries the two aggregators write now, each with the log it read
ExportedNow == export_stage_summary_csv_execute(Here, csv_file, now, "ok")
ScriptedNow == main(props.participant_log_path, logfile, csv_file)
SummariesNow ==
    (IF ExportedNow.status = "FINISHED"
     THEN {[csv |-> ExportedNow.csv, lines |-> ExportedNow.W.f]} ELSE {})
        \cup (IF ScriptedNow.status = "written"
              THEN {[csv |-> ScriptedNow.csv, lines |-> logfile]} ELSE {})

\* C6: in either aggregator's summary every group that has a Finalize event
\* has exactly one row, and the row's stalled seconds and completed are those
\* of the last Finalize event of the group in file order; the log of the
\* retried stage (1,1) gives the single row (1,1, failures 2, 3.000, True)
\* and the total 3.000.
C6_LastFinalizeWins ==
    \A s \in SummariesNow :
        /\ \A key \in AggKeys :
              FinalizesOf(s.lines, key) # {} =>
                  Cardinality({i \in DOMAIN s.csv.rows : RowKey(s.csv.rows[i]) = key}) = 1
        /\ \A i \in DOMAIN s.csv.rows :
              LET row == s.csv.rows[i]
                  F == FinalizesOf(s.lines, RowKey(row))
              IN F # {} =>
                    /\ row.stalled = <<Fmt3(s.lines[LastOf(F)].value.stalled_seconds)>>
                    /\ row.completed = StrBool(s.lines[LastOf(F)].value.completed)
        /\ s.lines = ScenarioLog =>
              /\ s.csv.rows = <<[chapter |-> 1, stage |-> 1, failures |-> 2,
                                 stalled |-> <<3000>>, completed |-> "True"]>>
              /\ s.csv.total = 3000

\* the export operator has summarised the log of the retried stage
C6_Witness ==
    /\ logfile = ScenarioLog
    /\ csv_file.encoding = "utf-8-sig"
    /\ Len(csv_file.rows) = 1
    /\ csv_file.rows[1].stalled = <<3000>>
    /\ csv_file.rows[1].completed = "True"
    /\ csv_file.total = 3000

\* C7: in either aggregator's summary every group that has a Validate event
\* has a row, and every row's failures is the number of Validate events of its
\* group with ok = false; successful validates, Finalize and Setup events add
\* nothing to it.
C7_FailuresCountFailedValidates ==
    \A s \in SummariesNow :
        /\ \A key \in AggKeys :
              (\E i \in DOMAIN s.lines : IsEventOf(s.lines, i, "validate", key))
                  => key \in RowKeys(s.csv)
        /\ \A i \in DOMAIN s.csv.rows :
              s.csv.rows[i].failures =
                  Cardinality(FailuresOf(s.lines, RowKey(s.csv.rows[i])))

\* the script has summarised the log of the retried stage: two failures
\* counted, the successful validate and the other events not
C7_Witness ==
    /\ logfile = ScenarioLog
    /\ csv_file.encoding = "utf-8"
    /\ Len(csv_file.rows) = 1
    /\ csv_file.rows[1].failures = 2

\* the stalled seconds a group resolves to: those of its last Finalize event,
\* 0 without one
Resolved(lines, key) ==
    LET F == FinalizesOf(lines, key)
    IN IF F = {} THEN 0 ELSE lines[LastOf(F)].value.stalled_seconds

RECURSIVE SumResolved(_, _)
SumResolved(lines, keys) ==
    IF keys = {} THEN 0
    ELSE LET k == CHOOSE j \in keys : TRUE
         IN Resolved(lines, k) + SumResolved(lines, keys \ {k})

\* C8: in either aggregator's summary the total is the sum, over the groups,
\* of the stalled seconds the group resolves to, a group without a Finalize
\* event adding 0.
C8_TotalIsSumOfResolved ==
    \A s \in SummariesNow :
        /\ s.csv.total = Fmt3(SumResolved(s.lines, AggKeys))
        /\ s.csv.total = Fmt3(SumResolved(s.lines, RowKeys(s.csv)))

\* a summary of two groups, finalized with 3.0 s and 12.5 s: total 15.500
C8_Witness ==
    /\ csv_file # NoCsv
    /\ Len(csv_file.rows) = 2
    /\ csv_file.rows[1].stalled = <<3000>>
    /\ csv_file.rows[2].stalled = <<12500>>
    /\ csv_file.total = 15500

\* C9: an export leaves an existing log file as it was (where none exists it
\* creates one and reads that); a second export, run at any later time over
\* the summary the first one wrote, leaves the log as it was and writes the
\* same summary again; so does the script.
C9_AggregationIdempotent ==
    \A io \in IoStates, t \in now..MaxTime :
        LET r1 == export_stage_summary_csv_execute(Here, csv_file, now, io)
            r2 == export_stage_summary_csv_execute(r1.W, r1.csv, t, "ok")
            s1 == main(props.participant_log_path, logfile, csv_file)
            s2 == main(props.participant_log_path, logfile, s1.csv)
        IN /\ LogFileExists(Here) =>
                 /\ r1.W.f = logfile
                 /\ r1.W.p.participant_log_path = props.participant_log_path
           /\ LogFileExists(r1.W) =>
                 /\ r2.W.f = r1.W.f
                 /\ r2.W.p.participant_log_path = r1.W.p.participant_log_path
           /\ r1.status = "FINISHED" =>
                 /\ r2.status = "FINISHED"
                 /\ r2.csv = r1.csv
           /\ s1.status = "written" =>
                 /\ s2.status = "written"
                 /\ s2.csv = s1.csv

\* the log of the retried stage has been summarised twice, at different times
C9_Witness ==
    /\ logfile = ScenarioLog
    /\ nops = 2
    /\ now = 2
    /\ csv_file.encoding = "utf-8-sig"
    /\ csv_file.total = 3000

\* the log holds events only, each a whole line
ValidLog(lines) == \A i \in DOMAIN lines : JsonParses(lines[i])

\* the lines of a log that parse
RECURSIVE ParsedLines(_)
ParsedLines(lines) ==
    IF lines = <<>> THEN <<>>
    ELSE IF JsonParses(Head(lines)) THEN <<Head(lines)>> \o ParsedLines(Tail(lines))
    ELSE ParsedLines(Tail(lines))

\* what the two aggregators make of the log file holding lines
ExportOf(lines) ==
    LET r == export_stage_summary_csv_execute(World(props, lines), NoCsv, now, "ok")
    IN [csv |-> r.csv, status |-> r.status]
ScriptOf(lines) == main(props.participant_log_path, lines, NoCsv)

\* C10: for a valid log, one more line left by a writer that stopped mid-line
\* changes neither aggregator's rows and total; and whatever lines of a log
\* do not parse, both aggregators finish and give what they give for the
\* lines that parse.
C10_CrashTolerance ==
    LogFileExists(Here) =>
        /\ ValidLog(logfile) =>
              \A junk \in BrokenLines :
                  /\ ExportOf(Append(logfile, junk)) = ExportOf(logfile)
                  /\ ScriptOf(Append(logfile, junk)) = ScriptOf(logfile)
        /\ ExportOf(logfile) = ExportOf(ParsedLines(logfile))
        /\ ScriptOf(logfile) = ScriptOf(ParsedLines(logfile))

(***************************************************************************)
(* Properties of the session operators, continued.                         *)
(***************************************************************************)
IsPrefixOf(f1, f2) == Len(f1) <= Len(f2) /\ SubSeq(f2, 1, Len(f1)) = f1

\* C11: every step leaves the lines already in the log as they are and adds
\* its own at the end; the lines an operator adds carry the time of that
\* operator's run, so the log is in the order of the invocations; among the
\* lines of one operator a Finalize event, which carries the key the operator
\* found, comes before a Setup event.
C11_AppendOnlyInOrder ==
    [][/\ IsPrefixOf(logfile, logfile')
       /\ \A i \in (Len(logfile) + 1)..Len(logfile') :
             /\ logfile'[i].value.t = now
             /\ logfile'[i].value.event = "finalize" =>
                   /\ logfile'[i].value.chapter = props.current_chapter
                   /\ logfile'[i].value.stage = props.current_stage
                   /\ \A j \in (Len(logfile) + 1)..(i - 1) :
                         logfile'[j].value.event # "setup"]_vars

\* two setups, the clock advancing between them: the log holds the first
\* setup's line, then the second setup's Finalize and Setup lines
C11_Witness ==
    /\ nops = 2
    /\ now = 2
    /\ Kinds(logfile) = <<"session_start", "setup", "finalize", "setup">>
    /\ logfile[2].value.t = 1
    /\ logfile[3].value.t = 2
    /\ logfile[4].value.t = 2

\* C12: the history never holds more than 500 records; a finalize appends
\* its record as the newest and, on a history of 500, leaves 500: the oldest
\* record is dropped and the others keep their order.
C12_HistoryFifo ==
    /\ MAX_RUNS = 500
    /\ Len(props.stage_runs) <= 500
    /\ props.stage_start_time > 0 =>
          \A completed \in BOOLEAN :
              LET before == props.stage_runs
                  after == finalize_current_run(Here, now, "ok", completed).p.stage_runs
              IN /\ after[Len(after)] =
                        StageRun(props, now, completed, now - props.stage_start_time)
                 /\ Len(before) < 500 =>
                        /\ Len(after) = Len(before) + 1
                        /\ SubSeq(after, 1, Len(before)) = before
                 /\ Len(before) = 500 =>
                        /\ Len(after) = 500
                        /\ SubSeq(after, 1, 499) = Tail(before)

\* the 502nd setup has recorded the 501st run: the run started at 1 is gone,
\* the runs started at 2..501 are left in order
C12_Witness ==
    /\ nops = 502
    /\ Len(props.stage_runs) = 500
    /\ \A i \in 1..500 : props.stage_runs[i].started_at = i + 1

IsSetupLine(l) == l.value.event = "setup"

\* C13: a setup whose scene commands succeed leaves failed_validate_count 0,
\* stage_start_time the time of the call, stage_complete false and the last
\* outcome (ok flag, reason, message, hints) cleared; it does not change the
\* chapter; and when the event log accepts lines it writes exactly one Setup
\* event, which carries the key the session is then at.
C13_SetupResets ==
    \A io \in IoStates :
        LET W == setup_stage_execute(Here, now, io, TRUE)
            setups == SelectSeq(NewLines(logfile, W.f), IsSetupLine)
        IN /\ W.p.failed_validate_count = 0
           /\ W.p.stage_start_time = now
           /\ ~W.p.stage_complete
           /\ W.p.last_result_ok
           /\ W.p.last_reason = ""
           /\ W.p.last_message = ""
           /\ W.p.last_hints = <<>>
           /\ W.p.current_chapter = props.current_chapter
           /\ Len(setups) <= 1
           /\ LogWorks(props, io) =>
                 /\ Len(setups) = 1
                 /\ setups[1].value.chapter = W.p.current_chapter
                 /\ setups[1].value.stage = W.p.current_stage

\* setup, a failed validate, setup again: the count and the outcome of the
\* failure went into the run record and are cleared in the session
C13_Witness ==
    /\ nops = 3
    /\ Len(props.stage_runs) = 1
    /\ props.stage_runs[1].failed_count = 1
    /\ props.stage_runs[1].last_reason = "NO_ACTIVE_CUBE"
    /\ props.failed_validate_count = 0
    /\ props.last_reason = ""
    /\ props.last_hints = <<>>
    /\ props.stage_start_time = now
    /\ Kinds(logfile) = <<"session_start", "setup", "validate", "finalize", "setup">>

\* C14: an advance at (6,1) finalizes the running attempt as completed, turns
\* the scene camera and lights off, unsets stage_start_time and leaves the key
\* at (6,1); an advance that follows it keeps the key and adds no run to the
\* history and no Finalize event to the log.
C14_TerminalAdvance ==
    (props.current_chapter = 6 /\ props.current_stage = 1) =>
        \A io \in IoStates :
            LET W == next_stage_execute(Here, now, io)
                fins == FinalizeLines(NewLines(logfile, W.f))
            IN /\ W.p.current_chapter = 6
               /\ W.p.current_stage = 1
               /\ W.s
               /\ W.p.stage_start_time = 0
               /\ props.stage_start_time > 0 =>
                     /\ AppendedRun(props.stage_runs, W.p.stage_runs, MAX_RUNS)
                     /\ LastRun(W.p) = StageRun(props, now, TRUE,
                                                now - props.stage_start_time)
                     /\ LogWorks(props, io) =>
                           /\ Len(fins) = 1
                           /\ fins[1].value.completed
                           /\ fins[1].value.chapter = 6
                           /\ fins[1].value.stage = 1
               /\ props.stage_start_time = 0 =>
                     /\ W.p.stage_runs = props.stage_runs
                     /\ Len(fins) = 0
               /\ \A io2 \in IoStates : \A t2 \in now..MaxTime :
                     LET W2 == next_stage_execute(W, t2, io2)
                     IN /\ W2.p.current_chapter = 6
                        /\ W2.p.current_stage = 1
                        /\ W2.p.stage_runs = W.p.stage_runs
                        /\ FinalizeLines(NewLines(W.f, W2.f)) = <<>>

\* chapter 6 was set up and then advanced: the attempt is in the history as
\* completed, the timer is unset and the scene is off
C14_Witness ==
    /\ props.current_chapter = 6
    /\ props.current_stage = 1
    /\ scene_off
    /\ props.stage_start_time = 0
    /\ Len(props.stage_runs) = 1
    /\ LastRun(props).chapter = 6
    /\ LastRun(props).completed
    /\ Kinds(logfile) = <<"session_start", "setup", "finalize">>
    /\ logfile[3].value.completed

OutcomeCleared(p) ==
    /\ p.last_result_ok
    /\ p.last_reason = ""
    /\ p.last_message = ""
    /\ p.last_hints = <<>>

\* C15: after an advance, whichever branch it takes (next stage, next chapter
\* or the terminal branch at (6,1)), failed_validate_count is 0, stage_complete
\* is false and the last outcome and the hints are cleared.
C15_AdvanceResets ==
    \A io \in IoStates :
        LET W == next_stage_execute(Here, now, io)
        IN /\ W.p.failed_validate_count = 0
           /\ ~W.p.stage_complete
           /\ OutcomeCleared(W.p)

\* the branches that move the key do reset the stage state
C15_MovingAdvanceResets ==
    \A io \in IoStates :
        LET W == next_stage_execute(Here, now, io)
        IN (props.current_chapter # 6 \/ props.current_stage # 1) =>
              /\ W.p.failed_validate_count = 0
              /\ ~W.p.stage_complete
              /\ OutcomeCleared(W.p)

\* the state a stage is in before it is set up
Transient(p) ==
    /\ p.failed_validate_count = 0
    /\ p.stage_start_time = 0
    /\ ~p.stage_complete
    /\ ~p.monitoring_active
    /\ OutcomeCleared(p)

\* the running attempt of the current state was finalized as abandoned on the
\* way to W, and nothing was finalized if no attempt was running
AbandonedOnTheWay(W, io) ==
    LET fins == FinalizeLines(NewLines(logfile, W.f))
    IN /\ props.stage_start_time > 0 =>
             /\ AppendedRun(props.stage_runs, W.p.stage_runs, MAX_RUNS)
             /\ LastRun(W.p) = StageRun(props, now, FALSE,
                                        now - props.stage_start_time)
             /\ LogWorks(props, io) =>
                   /\ Len(fins) = 1
                   /\ ~fins[1].value.completed
                   /\ fins[1].value.chapter = props.current_chapter
                   /\ fins[1].value.stage = props.current_stage
       /\ props.stage_start_time = 0 =>
             /\ W.p.stage_runs = props.stage_runs
             /\ fins = <<>>

\* C16: reset and goto-chapter n finalize the running attempt as not
\* completed, put the key at (1,1) and (n,1), and leave the stage state a
\* moving advance leaves: failed_validate_count 0, stage_start_time unset,
\* stage_complete and monitoring_active false, last outcome and hints cleared.
C16_ResetAndGoto ==
    \A io \in IoStates :
        /\ LET W == reset_execute(Here, now, io)
           IN /\ AbandonedOnTheWay(W, io)
              /\ W.p.current_chapter = 1
              /\ W.p.current_stage = 1
              /\ Transient(W.p)
        /\ \A n \in 1..LastChapter :
              LET W == goto_chapter_execute(Here, now, io, n)
              IN /\ AbandonedOnTheWay(W, io)
                 /\ W.p.current_chapter = n
                 /\ W.p.current_stage = 1
                 /\ Transient(W.p)
        /\ (props.current_chapter # 6 \/ props.current_stage # 1) =>
              LET W == next_stage_execute(Here, now, io)
              IN Transient(W.p)

\* a jump to another chapter in the middle of a failing attempt
C16_Witness ==
    /\ nops = 3
    /\ props.current_chapter \in GotoChapters
    /\ props.current_stage = 1
    /\ Transient(props)
    /\ Len(props.stage_runs) = 1
    /\ ~LastRun(props).completed
    /\ LastRun(props).chapter = 1
    /\ LastRun(props).failed_count = 1
    /\ Kinds(logfile) = <<"session_start", "setup", "validate", "finalize">>

\* C17: a timer event of the monitoring operator, with or without its soft
\* check, leaves the log, the scene and every session field other than
\* current_stall_seconds and stage_complete as they are (so failure count, last
\* outcome, hints, run history, key and stage_start_time are unchanged);
\* stage_complete never goes from true to false, and a soft check sets it
\* exactly when the environment satisfies the stage's predicate.
C17_MonitoringFrame ==
    \A env \in Snapshots(props.current_chapter, props.current_stage) :
        \A due \in BOOLEAN :
            LET W == monitoring_modal(Here, now, env, due)
                ok == validate_stage(props.current_chapter,
                                     props.current_stage, env).ok
            IN /\ W.f = logfile
               /\ W.s = scene_off
               /\ W.p = [props EXCEPT
                            !.current_stall_seconds = W.p.current_stall_seconds,
                            !.stage_complete = W.p.stage_complete]
               /\ W.p.failed_validate_count = props.failed_validate_count
               /\ W.p.stage_runs = props.stage_runs
               /\ W.p.stage_start_time = props.stage_start_time
               /\ W.p.last_reason = props.last_reason
               /\ W.p.last_hints = props.last_hints
               /\ props.stage_complete => W.p.stage_complete
               /\ (W.p.stage_complete /\ ~props.stage_complete) => ok
               /\ (props.monitoring_active /\ due) =>
                     (W.p.stage_complete <=> (props.stage_complete \/ ok))
               /\ W.p.current_stall_seconds \in
                     {props.current_stall_seconds, get_stall_seconds(props, now)}

\* after a failed validate the soft check found the stage satisfied: the stage
\* is complete while the failure and its hints are still on display
C17_Witness ==
    /\ props.stage_complete
    /\ props.monitoring_active
    /\ props.failed_validate_count = 1
    /\ ~props.last_result_ok
    /\ props.last_hints # <<>>
    /\ props.current_stall_seconds = 1
    /\ Kinds(logfile) = <<"session_start", "setup", "validate">>

\* C18: a validate whose check fails leaves the key, stage_start_time,
\* stage_complete, monitoring_active and the run history as they are.
C18_FailedValidateFrame ==
    \A env \in Snapshots(props.current_chapter, props.current_stage) :
        ~validate_stage(props.current_chapter, props.current_stage, env).ok =>
            \A io \in IoStates :
                LET p == validate_stage_execute(Here, now, io, env).p
                IN /\ p.current_chapter = props.current_chapter
                   /\ p.current_stage = props.current_stage
                   /\ p.stage_start_time = props.stage_start_time
                   /\ p.stage_complete = props.stage_complete
                   /\ p.monitoring_active = props.monitoring_active
                   /\ p.stage_runs = props.stage_runs

\* a failed validate in a later second of a monitored attempt: the attempt
\* still runs from its start and nothing was finalized
C18_Witness ==
    /\ nops = 2
    /\ now = 2
    /\ props.failed_validate_count = 1
    /\ ~props.last_result_ok
    /\ props.stage_start_time = 1
    /\ props.monitoring_active
    /\ ~props.stage_complete
    /\ props.stage_runs = <<>>
    /\ props.current_chapter = 1
    /\ props.current_stage = 1

IsValidateLine(l) == l.value.event = "validate"

\* C19: a validate writes at most one Validate event and, when the event log
\* accepts lines, exactly one; the event carries the key, the outcome of the
\* check (ok, reason, message), the failure count after the update and the
\* stall time at the call, which is 0 when the stage was not started.
C19_ValidateEvent ==
    \A env \in Snapshots(props.current_chapter, props.current_stage) :
    LET r == validate_stage(props.current_chapter, props.current_stage, env) IN
    \A io \in IoStates :
        LET W == validate_stage_execute(Here, now, io, env)
            new == NewLines(logfile, W.f)
            vals == SelectSeq(new, IsValidateLine)
        IN /\ Len(vals) <= 1
           /\ \A i \in 1..Len(new) :
                 new[i].value.event \in {"session_start", "validate"}
           /\ LogWorks(props, io) =>
                 /\ Len(vals) = 1
                 /\ new[Len(new)] = vals[1]
                 /\ vals[1].text = "json"
                 /\ vals[1].value.t = now
                 /\ vals[1].value.chapter = props.current_chapter
                 /\ vals[1].value.stage = props.current_stage
                 /\ vals[1].value.ok = r.ok
                 /\ vals[1].value.reason = r.reason
                 /\ vals[1].value.message = r.message
                 /\ vals[1].value.fail_count = W.p.failed_validate_count
                 /\ vals[1].value.fail_count =
                       (IF r.ok THEN 0 ELSE props.failed_validate_count + 1)
                 /\ vals[1].value.stall_s =
                       (IF props.stage_start_time = 0 THEN 0
                        ELSE now - props.stage_start_time)

\* a failed validate before any setup (stall 0), then a setup and a failed
\* validate one second into the attempt (stall 1)
C19_Witness ==
    /\ Kinds(logfile) = <<"session_start", "validate", "setup", "validate">>
    /\ logfile[2].value.stall_s = 0
    /\ logfile[2].value.fail_count = 1
    /\ logfile[4].value.t = 2
    /\ logfile[4].value.stall_s = 1
    /\ logfile[4].value.fail_count = 1
    /\ ~logfile[4].value.ok
    /\ props.failed_validate_count = 1

\* the number of hints the policy allows at failure count n
HintLevel(n) == IF n <= 1 THEN 1 ELSE IF n = 2 THEN 2 ELSE 3

Smaller(a, b) == IF a <= b THEN a ELSE b

\* C20: apply_hint_escalation(hints, n) is the prefix of hints of length
\* min(k, Len(hints)) with k = 1 for n <= 1, 2 for n = 2 and 3 for n >= 3; a
\* larger n never shows fewer hints, what one n shows is a prefix of what a
\* larger n shows, and never more than min(3, Len(hints)) hints are shown.
C20_Escalation ==
    LET hints == hint_call.hints
        shown == hint_call.escalated
    IN /\ hint_call.returned =>
             /\ Len(shown) = Smaller(HintLevel(hint_call.n), Len(hints))
             /\ \A i \in 1..Len(shown) : shown[i] = hints[i]
             /\ Len(shown) <= Smaller(3, Len(hints))
             /\ shown = apply_hint_escalation(hints, hint_call.n)
       /\ \A m \in FailureCounts :
             LET lo == apply_hint_escalation(hints, m)
                 hi == apply_hint_escalation(hints, m + 1)
             IN /\ Len(lo) <= Len(hi)
                /\ IsPrefixOf(lo, hi)

\* four hints at failure count 3: the first three are shown
C20_Witness ==
    /\ hint_call.returned
    /\ hint_call.hints = <<"h_a", "h_b", "h_b", "h_a">>
    /\ hint_call.n = 3
    /\ hint_call.escalated = <<"h_a", "h_b", "h_b">>

(***************************************************************************)
(* The participant log file                                                *)
(***************************************************************************)
\* the id is empty or consists of blanks only
BlankId(pid) == \A i \in 1..Len(pid) : pid[i] \in Blanks

\* no log file exists and none is named
NoLog(W) == W.f = <<>> /\ W.p.participant_log_path = NoPath

\* C21: while the participant id is empty or blank, no log file exists and
\* the log path is unset, and no operator changes that: every operator that
\* tries to log with logging enabled leaves the "no id" message in
\* participant_log_error, and the export writes no summary either.
C21_NoLogWithoutId ==
    BlankId(props.participant_id) =>
        /\ logfile = <<>>
        /\ props.participant_log_path = NoPath
        /\ csv_file = NoCsv
        /\ \A pid \in {props.participant_id, <<>>} : \A io \in IoStates :
              LET H == [Here EXCEPT !.p.participant_id = pid]
                  Wv == validate_stage_execute(H, now, io, EnvDefault)
                  Ws == setup_stage_execute(H, now, io, TRUE)
                  Wn == next_stage_execute(H, now, io)
                  Wr == reset_execute(H, now, io)
                  Wg == goto_chapter_execute(H, now, io, LastChapter)
                  X == export_stage_summary_csv_execute(H, csv_file, now, io)
              IN /\ NoLog(Wv) /\ NoLog(Ws) /\ NoLog(Wn) /\ NoLog(Wr) /\ NoLog(Wg)
                 /\ NoLog(X.W)
                 /\ X.csv = NoCsv
                 /\ X.W.p.participant_log_error = "ERR_NO_PID"
                 /\ props.enable_participant_logging =>
                       /\ Wv.p.participant_log_error = "ERR_NO_PID"
                       /\ Ws.p.participant_log_error = "ERR_NO_PID"
                       /\ props.stage_start_time > 0 =>
                             /\ Wn.p.participant_log_error = "ERR_NO_PID"
                             /\ Wr.p.participant_log_error = "ERR_NO_PID"
                             /\ Wg.p.participant_log_error = "ERR_NO_PID"

\* a blank id with logging enabled: a stage was set up, failed and advanced,
\* the run is in the history, the message is shown and there is no log
C21_Witness ==
    /\ props.participant_id = <<" ">>
    /\ props.enable_participant_logging
    /\ nops = 3
    /\ Len(props.stage_runs) = 1
    /\ props.stage_runs[1].failed_count = 1
    /\ props.current_stage = 2
    /\ props.participant_log_error = "ERR_NO_PID"
    /\ logfile = <<>>
    /\ props.participant_log_path = NoPath

IsSessionStart(l) == l.value.event = "session_start"

IoFaults == IoStates \ {"ok"}

\* the session state apart from the two fields that describe the log file
SessionState(W) ==
    [s |-> W.s,
     p |-> [W.p EXCEPT !.participant_log_path = NoPath,
                       !.participant_log_error = ""]]

\* what an operator leaves when the file system fails (Wf) against what it
\* leaves when logging works (Wk): the same session state, the log not
\* shortened, and an error message whenever a line was lost
Contained(Wf, Wk) ==
    /\ SessionState(Wf) = SessionState(Wk)
    /\ IsPrefixOf(logfile, Wf.f)
    /\ IsPrefixOf(Wf.f, Wk.f)
    /\ Wf.f # Wk.f => Wf.p.participant_log_error # ""

\* C23: a failure to create the log directory or to open the log file does
\* not change what setup, validate, advance, reset and goto-chapter (and the
\* finalize inside them) do to the session: key, counters, outcome, timer and
\* run history come out as they do when logging works, and the failure is
\* left as a message in participant_log_error.
C23_LogFailureContained ==
    \A io \in IoFaults :
        /\ \A cmd_ok \in BOOLEAN :
              Contained(setup_stage_execute(Here, now, io, cmd_ok),
                        setup_stage_execute(Here, now, "ok", cmd_ok))
        /\ \A env \in Snapshots(props.current_chapter, props.current_stage) :
              Contained(validate_stage_execute(Here, now, io, env),
                        validate_stage_execute(Here, now, "ok", env))
        /\ \A completed \in BOOLEAN :
              Contained(finalize_current_run(Here, now, io, completed),
                        finalize_current_run(Here, now, "ok", completed))
        /\ Contained(next_stage_execute(Here, now, io),
                     next_stage_execute(Here, now, "ok"))
        /\ Contained(reset_execute(Here, now, io),
                     reset_execute(Here, now, "ok"))
        /\ \A n \in GotoChapters :
              Contained(goto_chapter_execute(Here, now, io, n),
                        goto_chapter_execute(Here, now, "ok", n))

\* the log file could not be opened while an attempt with one failure was
\* finalized: the run is in the history, the log has no Finalize line
C23_Witness ==
    /\ props.participant_log_error \in {"ERR_WRITE", "ERR_DIR"}
    /\ props.enable_participant_logging
    /\ Len(props.stage_runs) = 1
    /\ props.stage_runs[1].failed_count = 1
    /\ props.current_stage = 2
    /\ Kinds(logfile) = <<"session_start", "setup", "validate">>

(***************************************************************************)
(* Properties of StageManager.validate_stage                               *)
(***************************************************************************)
\* the key is not in the stage table
Unmapped(ch, st) == st > ClaimStageCount[ch]

\* C24: for a key whose stage is above the stage count of its chapter,
\* validate_stage returns ok = false with reason UNKNOWN (or NOT_IMPLEMENTED),
\* whatever the snapshot.
C24_UnmappedIsUnknown ==
    \A i \in 1..Len(evaluation.outcomes) :
        Unmapped(evaluation.key[1], evaluation.key[2]) =>
            /\ ~evaluation.outcomes[i].ok
            /\ evaluation.outcomes[i].reason \in {"UNKNOWN", "NOT_IMPLEMENTED"}

\* what holds instead: UNKNOWN in chapters 1, 4 and 5, and in chapters 2 and
\* 3 unless the prerequisite of the chapter is missing
C24_UnmappedOutcomes ==
    \A ch \in Chapters : \A st \in 1..MaxStage :
        \A env \in Snapshots(ch, st) :
            LET r == validate_stage(ch, st, env)
            IN Unmapped(ch, st) =>
                  CASE ch = 2 /\ ~env.view3d -> r.reason = "NO_VIEW3D"
                    [] ch = 3 /\ ~get_bm(env) -> r.reason = "NOT_IN_EDIT_MODE"
                    [] ch = 6 -> r.reason \in {"OK", "RENDER_NOT_SAVED"}
                    [] OTHER -> ~r.ok /\ r.reason = "UNKNOWN"

\* C25: a call of validate_stage leaves the key, failed_validate_count,
\* stage_complete, stage_start_time, the run history and the log as they
\* are, and calls on the same key and snapshot return the same outcome.
C25_EvaluateIsPure ==
    [][/\ props'.current_chapter = props.current_chapter
       /\ props'.current_stage = props.current_stage
       /\ props'.failed_validate_count = props.failed_validate_count
       /\ props'.stage_complete = props.stage_complete
       /\ props'.stage_start_time = props.stage_start_time
       /\ props'.stage_runs = props.stage_runs
       /\ logfile' = logfile
       /\ \A i \in 1..Len(evaluation'.outcomes) :
             evaluation'.outcomes[i] = evaluation'.outcomes[1]]_vars

\* what holds instead: the call changes nothing but current_stage, and that
\* only in chapter 6 at a stage other than 1; on the same snapshot it returns
\* the same outcome; the all-chapters confirmation restores the key
C25_EvaluateChangesStageOfChapter6 ==
    /\ \A i \in 1..Len(evaluation.outcomes) :
          /\ evaluation.outcomes[i] = evaluation.outcomes[1]
          /\ evaluation.outcomes[i] =
                validate_stage(evaluation.key[1], evaluation.key[2], evaluation.env)
    /\ props.current_chapter = evaluation.key[1]
    /\ props.current_stage =
          (IF evaluation.key[1] = 6 /\ evaluation.outcomes # <<>> THEN 1
           ELSE evaluation.key[2])
    /\ props.stage_runs = <<>>
    /\ props.stage_start_time = 1
    /\ logfile = <<>>
    /\ confirm_all_chapters_execute(Here, evaluation.env).W = Here

(***************************************************************************)
(* Properties of the aggregators, continued                                *)
(***************************************************************************)
IsCounted(line) ==
    JsonParses(line) => line.value.event \in {"validate", "finalize"}

\* the log without its Setup and SessionStart lines
CountedLines(lines) == SelectSeq(lines, IsCounted)

\* some Validate or Finalize line of the log is about key
HasCountedEvent(lines, key) ==
    \E j \in DOMAIN lines :
        IsEventOf(lines, j, "validate", key) \/ IsEventOf(lines, j, "finalize", key)

\* the summary has rows only for keys with a Validate or Finalize event, and
\* is the summary of the log without its Setup and SessionStart lines
KeepsOnlyCounted(csv, lines, alone) ==
    /\ \A i \in DOMAIN csv.rows : HasCountedEvent(lines, RowKey(csv.rows[i]))
    /\ csv.rows = alone.rows
    /\ csv.total = alone.total

\* C26: both aggregators keep only Validate and Finalize events: a key that
\* occurs only in Setup or SessionStart events gets no row, and the rows and
\* the total are those of the log without its Setup and SessionStart lines.
C26_OnlyValidateAndFinalize ==
    /\ ExportedNow.status = "FINISHED" =>
          KeepsOnlyCounted(ExportedNow.csv, ExportedNow.W.f,
                           ExportOf(CountedLines(ExportedNow.W.f)).csv)
    /\ ScriptedNow.status = "written" =>
          KeepsOnlyCounted(ScriptedNow.csv, logfile,
                           ScriptOf(CountedLines(logfile)).csv)

\* what holds instead: the export operator keeps only Validate and Finalize
\* events; the script gives a row to every key of a Setup event as well
C26_ScriptKeepsSetup ==
    /\ ExportedNow.status = "FINISHED" =>
          KeepsOnlyCounted(ExportedNow.csv, ExportedNow.W.f,
                           ExportOf(CountedLines(ExportedNow.W.f)).csv)
    /\ ScriptedNow.status = "written" =>
          /\ \A i \in DOMAIN ScriptedNow.csv.rows :
                LET key == RowKey(ScriptedNow.csv.rows[i])
                IN \/ HasCountedEvent(logfile, key)
                   \/ \E j \in DOMAIN logfile : IsEventOf(logfile, j, "setup", key)
          /\ \A key \in AggKeys :
                (\E j \in DOMAIN logfile : IsEventOf(logfile, j, "setup", key))
                    => key \in RowKeys(ScriptedNow.csv)
          /\ ScriptedNow.csv.total = ScriptOf(CountedLines(logfile)).csv.total

\* the keys of the events of the given kinds in the log
KeysOf(lines, kinds) ==
    {<<lines[j].value.chapter, lines[j].value.stage>> :
        j \in {i \in DOMAIN lines : /\ JsonParses(lines[i])
                                    /\ lines[i].value.event \in kinds}}

StrictlyAscending(rows) ==
    \A i \in 1..(Len(rows) - 1) : KeyLess(RowKey(rows[i]), RowKey(rows[i + 1]))

\* C27: the summary has exactly one row for each (chapter, stage) that has a
\* grouped event in the log, and its rows are in strictly ascending
\* (chapter, stage) order, in whatever order the events are in the log.
\* (The export groups Validate and Finalize events, the script Setup events
\* as well.)
C27_OneRowPerKeyInOrder ==
    LET e == ExportedNow
        m == ScriptedNow
    IN /\ e.status = "FINISHED" =>
             /\ StrictlyAscending(e.csv.rows)
             /\ RowKeys(e.csv) = KeysOf(e.W.f, {"validate", "finalize"})
             /\ Len(e.csv.rows) = Cardinality(RowKeys(e.csv))
       /\ m.status = "written" =>
             /\ StrictlyAscending(m.csv.rows)
             /\ RowKeys(m.csv) = KeysOf(logfile, {"validate", "finalize", "setup"})
             /\ Len(m.csv.rows) = Cardinality(RowKeys(m.csv))
       /\ csv_file # NoCsv => StrictlyAscending(csv_file.rows)

\* the log with its stages out of order was summarised: three rows, in order
C27_Witness ==
    /\ logfile = ShuffledLog
    /\ csv_file # NoCsv
    /\ Len(csv_file.rows) = 3
    /\ RowKey(csv_file.rows[1]) = <<1, 1>>
    /\ RowKey(csv_file.rows[2]) = <<1, 2>>
    /\ RowKey(csv_file.rows[3]) = <<2, 1>>
    /\ csv_file.rows[1].failures = 1

\* the lines of the log that are events of the session, a line cut short or
\* blank: the lines the session and a crash can leave
RECURSIVE SessionLines(_)
SessionLines(lines) ==
    IF lines = <<>> THEN <<>>
    ELSE LET line == Head(lines)
             rest == SessionLines(Tail(lines))
         IN IF JsonParses(line) /\ (~IsObject(line.value) \/ TextFields(line.value) # {})
            THEN rest ELSE <<line>> \o rest

\* C28: whatever the lines of the log, either aggregator completes with a
\* summary: lines that do not parse, JSON values that are not objects and
\* objects whose chapter or stage is missing or not a number are skipped, and
\* nothing is raised.
C28_AggregationIsTotal ==
    /\ ExportedNow.status = "FINISHED"
    /\ ExportedNow.csv = ExportOf(SessionLines(logfile)).csv
    /\ ScriptedNow.status = "written"
    /\ ScriptedNow.csv = ScriptOf(SessionLines(logfile)).csv

\* what holds instead: an aggregator raises exactly when the log holds a JSON
\* value that is not an object or an event it keeps whose chapter is not a
\* number; lines cut short, blank lines and objects without a chapter are
\* skipped, and so are objects with a text chapter of a kind it does not keep
C28_RaisesOnOddValues ==
    LET odd(kinds) ==
            \E i \in DOMAIN logfile :
                /\ JsonParses(logfile[i])
                /\ \/ logfile[i] = JsonDumps(NotAnObject)
                   \/ logfile[i] \in {JsonDumps(WithTextChapter(k)) : k \in kinds}
    IN /\ ExportedNow.status = (IF odd({"validate"}) THEN "raised" ELSE "FINISHED")
       /\ ScriptedNow.status = (IF odd({"validate", "setup"}) THEN "raised" ELSE "written")
       /\ ExportedNow.status = "FINISHED" =>
             ExportedNow.csv = ExportOf(SessionLines(logfile)).csv
       /\ ScriptedNow.status = "written" =>
             ScriptedNow.csv = ScriptOf(SessionLines(logfile)).csv

\* a timer event of the monitoring operator leaves the session as it is
TickIsIdle ==
    \A env \in Snapshots(props.current_chapter, props.current_stage), due \in BOOLEAN :
        monitoring_modal(Here, now, env, due) = Here

AtLastStage ==
    /\ props.current_chapter = LastChapter
    /\ props.current_stage >= max_stages_per_chapter(LastChapter)

\* C29: a tick that finds monitoringActive cleared performs no soft check,
\* and the flag is cleared by every advance, the terminal one included, by
\* reset and by gotoChapter, so that after any of them no tick can change
\* stageComplete.
C29_MonitoringStopsOnClear ==
    /\ ~props.monitoring_active => TickIsIdle
    /\ \A io \in IoStates :
          /\ ~next_stage_execute(Here, now, io).p.monitoring_active
          /\ ~reset_execute(Here, now, io).p.monitoring_active
          /\ \A ch \in Chapters :
                ~goto_chapter_execute(Here, now, io, ch).p.monitoring_active

\* what holds instead: the terminal advance leaves monitoringActive as it
\* finds it; the other advances, reset and gotoChapter clear it, and a tick
\* that finds it cleared does nothing
C29_ClearedExceptAtSessionEnd ==
    /\ ~props.monitoring_active => TickIsIdle
    /\ \A io \in IoStates :
          /\ next_stage_execute(Here, now, io).p.monitoring_active =
                (AtLastStage /\ props.monitoring_active)
          /\ ~reset_execute(Here, now, io).p.monitoring_active
          /\ \A ch \in Chapters :
                ~goto_chapter_execute(Here, now, io, ch).p.monitoring_active

\* a state after the terminal advance in which the monitor is still running
\* and a tick completes the stage
C29_TickAfterSessionEnd ==
    /\ scene_off
    /\ AtLastStage
    /\ props.monitoring_active
    /\ props.stage_start_time = 0
    /\ ~props.stage_complete
    /\ \E env \in Snapshots(props.current_chapter, props.current_stage) :
          monitoring_modal(Here, now, env, TRUE).p.stage_complete

\* the reason the missing prerequisite of stage key asks for in environment
\* env, "" when the prerequisite is there or the stage has none
MissingPrerequisite(key, env) ==
    IF key[1] = 1 /\ key[2] \in 2..4 /\ env.obj # "Cube" THEN "NO_ACTIVE_CUBE"
    ELSE IF key[1] = 3 /\ key[2] \in 2..6 /\ (env.obj = "None" \/ env.mode # "EDIT_MESH")
    THEN "NOT_IN_EDIT_MODE"
    ELSE IF key[1] = 5 /\ key[2] \in {1, 2, 5} /\ env.obj = "None" THEN "NO_ACTIVE_OBJECT"
    ELSE ""

\* env with every field but the active object and the mode left at its default
OnlyObjectAndMode(env) == [EnvDefault EXCEPT !.obj = env.obj, !.mode = env.mode]

\* C30: when the prerequisite of a stage is missing (the Cube in chapter 1
\* stages 2-4, edit mode in chapter 3 stages 2-6, an active object in
\* chapter 5 stages 1, 2 and 5), every evaluation fails with the reason of
\* that prerequisite, whatever the other fields of the environment hold, and
\* also when they are all left at their defaults.
C30_PrerequisitesFirst ==
    LET key == evaluation.key
        env == evaluation.env
        want == MissingPrerequisite(key, env)
    IN want # "" =>
          /\ \A i \in DOMAIN evaluation.outcomes :
                /\ ~evaluation.outcomes[i].ok
                /\ evaluation.outcomes[i].reason = want
          /\ LET r == validate_stage(key[1], key[2], OnlyObjectAndMode(env))
             IN ~r.ok /\ r.reason = want

\* stage (1,2) was evaluated with another object active and a movement that
\* would have matched: the outcome names the missing Cube
C30_Witness ==
    /\ evaluation.key = <<1, 2>>
    /\ evaluation.env.obj = "Other"
    /\ Abs(evaluation.env.movement - 200) < 10
    /\ Len(evaluation.outcomes) = MaxCalls
    /\ evaluation.outcomes[1].reason = "NO_ACTIVE_CUBE"

\* stage (3,2) evaluated outside edit mode with vertex select mode set and
\* three vertices selected
C30_WitnessEditMode ==
    /\ evaluation.key = <<3, 2>>
    /\ evaluation.env.mode = "OBJECT"
    /\ evaluation.env.select_mode[1]
    /\ evaluation.env.sel_verts >= 3
    /\ Len(evaluation.outcomes) >= 1
    /\ evaluation.outcomes[1].reason = "NOT_IN_EDIT_MODE"

\* stage (5,2) evaluated without an active object
C30_WitnessActiveObject ==
    /\ evaluation.key = <<5, 2>>
    /\ evaluation.env.obj = "None"
    /\ Len(evaluation.outcomes) >= 1
    /\ evaluation.outcomes[1].reason = "NO_ACTIVE_OBJECT"

\* the reason codes the specification enumerates for a ValidationOutcome
ReasonCodes ==
    {"OK", "NO_ACTIVE_CUBE", "TRANSFORM_NOT_MATCHED", "SCALE_NOT_CHANGED",
     "VIEW_NOT_MOVED", "VIEW_NOT_ZOOMED", "VIEW_NOT_ROTATED", "VIEW_NOT_COMPLETED",
     "NOT_IN_EDIT_MODE", "WRONG_SELECT_MODE", "NOT_ENOUGH_SELECTED",
     "NOTHING_SELECTED", "EXTRUDE_NOT_DETECTED", "LOOPCUT_NOT_DETECTED",
     "NOT_IN_SCULPT_MODE", "SCULPT_NOT_DETECTED", "WRONG_BRUSH",
     "NO_ACTIVE_OBJECT", "NO_MATERIAL", "NO_BSDF", "BASE_COLOR_NOT_CHANGED",
     "NO_IMAGE_TEXTURE", "NODE_LINK_INCORRECT", "PBR_NOT_CHANGED",
     "RENDER_NOT_SAVED", "NOT_IMPLEMENTED", "UNKNOWN"}

\* C31: every outcome validate_stage returns, for every key and snapshot,
\* carries a reason code of the enumerated set, and ok is true exactly when
\* the reason code is OK.
C31_ReasonIsEnumerated ==
    \A i \in 1..Len(evaluation.outcomes) :
        /\ evaluation.outcomes[i].reason \in ReasonCodes
        /\ evaluation.outcomes[i].ok <=> evaluation.outcomes[i].reason = "OK"

\* what holds instead: the reason is one of the enumerated codes or NO_VIEW3D,
\* NO_VIEW3D exactly in chapter 2 without a 3D view, and ok goes with OK
C31_ReasonIsEnumeratedOrNoView ==
    \A i \in 1..Len(evaluation.outcomes) :
        LET r == evaluation.outcomes[i]
        IN /\ r.reason \in ReasonCodes \cup {"NO_VIEW3D"}
           /\ r.reason = "NO_VIEW3D" <=>
                 (evaluation.key[1] = 2 /\ ~evaluation.env.view3d)
           /\ r.ok <=> r.reason = "OK"

\* the stage table of the specification
StageCount == <<4, 4, 6, 4, 5, 1>>

InStageTable(p) ==
    /\ p.current_chapter \in 1..6
    /\ p.current_stage \in 1..StageCount[p.current_chapter]

\* C32: the current key is always a key of the stage table, and the
\* all-chapters confirmation puts the key back to what it was.
C32_KeyInStageTable ==
    /\ InStageTable(props)
    /\ \A env \in Snapshots(props.current_chapter, props.current_stage) :
          LET W == confirm_all_chapters_execute(Here, env).W
          IN /\ W.p.current_chapter = props.current_chapter
             /\ W.p.current_stage = props.current_stage

\* the session stands at the last stage of chapter 3 after three operators,
\* the last stage of the longest chapter
C32_Witness ==
    /\ props.current_chapter = 3
    /\ props.current_stage = 6
    /\ props.stage_runs # <<>>
    /\ nops = MaxOps

\* the Finalize events of the log, in file order
RECURSIVE FinalizeEventsOf(_)
FinalizeEventsOf(lines) ==
    IF lines = <<>> THEN <<>>
    ELSE (IF JsonParses(Head(lines)) /\ Head(lines).value.event = "finalize"
          THEN <<Head(lines).value>> ELSE <<>>) \o FinalizeEventsOf(Tail(lines))

\* C33: no two runs of the history, and no two Finalize events of the log,
\* carry the same start time: an attempt is finalized at most once.  (The
\* clock of the model counts half seconds, so an attempt that lasted no time
\* and the attempt set up right after it start at the same clock value; such
\* a pair is two attempts and is left out.)
C33_FinalizedAtMostOnce ==
    /\ \A i, j \in DOMAIN props.stage_runs :
          (i < j /\ props.stage_runs[i].started_at = props.stage_runs[j].started_at)
              => props.stage_runs[i].ended_at = props.stage_runs[i].started_at
    /\ LET F == FinalizeEventsOf(logfile)
       IN \A i, j \in DOMAIN F :
             (i < j /\ F[i].stage_started_at = F[j].stage_started_at)
                 => F[i].t = F[i].stage_started_at

\* what holds instead: the attempt stays open after the finalize of a setup
\* whose scene commands fail, and only after that one: every other operator
\* that finalizes closes the attempt or starts a new one
C33_FailedSetupKeepsAttemptOpen ==
    \A io \in IoStates, cmd_ok \in BOOLEAN :
        LET W == setup_stage_execute(Here, now, io, cmd_ok)
        IN /\ (~cmd_ok /\ props.stage_start_time > 0) =>
                 /\ W.p.stage_start_time = props.stage_start_time
                 /\ Len(W.p.stage_runs) = Len(props.stage_runs) + 1
           /\ cmd_ok => W.p.stage_start_time = now
           /\ next_stage_execute(Here, now, io).p.stage_start_time = 0
           /\ reset_execute(Here, now, io).p.stage_start_time = 0

\* C34: a setup whose scene commands fail writes no Setup event and leaves
\* failed_validate_count, stage_start_time, stage_complete, monitoring_active
\* and the last outcome as they were.
C34_FailedSetupFrame ==
    \A io \in IoStates :
        LET W == setup_stage_execute(Here, now, io, FALSE)
        IN /\ W.p.failed_validate_count = props.failed_validate_count
           /\ W.p.stage_start_time = props.stage_start_time
           /\ W.p.stage_complete = props.stage_complete
           /\ W.p.monitoring_active = props.monitoring_active
           /\ W.p.last_result_ok = props.last_result_ok
           /\ W.p.last_reason = props.last_reason
           /\ W.p.last_message = props.last_message
           /\ W.p.last_hints = props.last_hints
           /\ Len(W.f) >= Len(logfile)
           /\ \A i \in DOMAIN W.f :
                 i > Len(logfile) => W.f[i].value.event # "setup"

\* a setup failed on a stage that had been set up and had failed a validate:
\* the attempt was finalized and its counters are still in place
C34_Witness ==
    /\ nfaults = 1
    /\ nops = MaxOps
    /\ props.failed_validate_count = 1
    /\ ~props.last_result_ok
    /\ props.monitoring_active
    /\ props.stage_start_time = 1
    /\ Len(props.stage_runs) = 1
    /\ props.stage_runs[1].started_at = 1
    /\ props.stage_runs[1].failed_count = 1
    /\ ~props.stage_runs[1].completed
    /\ IF logfile = <<>> THEN ~props.enable_participant_logging
       ELSE logfile[Len(logfile)].value.event = "finalize"

\* C35: advance records a run, and a Finalize event, with completed = true
\* only for a stage whose stage_complete flag is set when it is invoked.
C35_CompletedOnlyWhenComplete ==
    \A io \in IoStates :
        LET W == next_stage_execute(Here, now, io)
        IN /\ Len(W.p.stage_runs) > Len(props.stage_runs) => props.stage_complete
           /\ \A i \in DOMAIN W.f :
                 (i > Len(logfile) /\ W.f[i].value.event = "finalize")
                     => props.stage_complete

\* what holds instead: advance records the running attempt as completed
\* whatever stage_complete is
C35_AdvanceAlwaysCompletes ==
    \A io \in IoStates :
        LET W == next_stage_execute(Here, now, io)
        IN IF props.stage_start_time > 0
           THEN /\ Len(W.p.stage_runs) = Len(props.stage_runs) + 1
                /\ W.p.stage_runs[Len(W.p.stage_runs)].completed
           ELSE W.p.stage_runs = props.stage_runs

KeyOf(p) == <<p.current_chapter, p.current_stage>>

\* C36: an advance that changes the key appends exactly one run, with
\* completed = true, for the key it leaves; with stage_start_time unset it
\* does not move to the next key.
C36_AdvanceRecordsStageLeft ==
    \A io \in IoStates :
        LET W == next_stage_execute(Here, now, io)
            n == Len(W.p.stage_runs)
        IN KeyOf(W.p) # KeyOf(props) =>
              /\ n = Len(props.stage_runs) + 1
              /\ W.p.stage_runs[n].completed
              /\ <<W.p.stage_runs[n].chapter, W.p.stage_runs[n].stage>> = KeyOf(props)

\* what holds instead: the key moves as the stage table says whether or not
\* an attempt is running, and a run is recorded only for a running attempt
C36_AdvanceMovesWithoutRun ==
    \A io \in IoStates :
        LET W == next_stage_execute(Here, now, io)
            n == Len(W.p.stage_runs)
        IN /\ KeyOf(W.p) =
                 (IF props.current_stage < max_stages_per_chapter(props.current_chapter)
                  THEN <<props.current_chapter, props.current_stage + 1>>
                  ELSE IF props.current_chapter < LastChapter
                  THEN <<props.current_chapter + 1, 1>>
                  ELSE KeyOf(props))
           /\ IF props.stage_start_time > 0
              THEN /\ n = Len(props.stage_runs) + 1
                   /\ W.p.stage_runs[n].completed
                   /\ <<W.p.stage_runs[n].chapter, W.p.stage_runs[n].stage>> = KeyOf(props)
              ELSE W.p.stage_runs = props.stage_runs

\* the failed validate events the log holds after its last Setup event
FailedSinceSetup(lines) ==
    LET S == {i \in DOMAIN lines : lines[i].value.event = "setup"}
        last == IF S = {} THEN 0 ELSE CHOOSE i \in S : \A j \in S : j <= i
    IN {i \in DOMAIN lines : /\ i > last
                             /\ lines[i].value.event = "validate"
                             /\ ~lines[i].value.ok}

\* the run advance, reset or a chapter jump would append now
RunAppendedBy(W) == W.p.stage_runs[Len(W.p.stage_runs)]

\* C37: failed_validate_count is the length of the current streak of failed
\* validates: a failed validate adds one; a successful setup, a successful
\* validate, a non-terminal advance, reset and a chapter jump set it to 0;
\* nothing else changes it; and the run and the Finalize event record the
\* count as it stands when the attempt is finalized.
C37_FailureCountIsStreak ==
    /\ \A env \in Snapshots(props.current_chapter, props.current_stage) :
          /\ \A io \in IoStates :
                validate_stage_execute(Here, now, io, env).p.failed_validate_count =
                    (IF validate_stage(props.current_chapter, props.current_stage, env).ok
                     THEN 0 ELSE props.failed_validate_count + 1)
          /\ monitoring_modal(Here, now, env, TRUE).p.failed_validate_count
                = props.failed_validate_count
          /\ confirm_all_chapters_execute(Here, env).W.p.failed_validate_count
                = props.failed_validate_count
    /\ \A io \in IoStates :
        /\ setup_stage_execute(Here, now, io, TRUE).p.failed_validate_count = 0
        /\ setup_stage_execute(Here, now, io, FALSE).p.failed_validate_count
              = props.failed_validate_count
        /\ next_stage_execute(Here, now, io).p.failed_validate_count =
              (IF AtLastStage THEN props.failed_validate_count ELSE 0)
        /\ reset_execute(Here, now, io).p.failed_validate_count = 0
        /\ \A ch \in Chapters :
              goto_chapter_execute(Here, now, io, ch).p.failed_validate_count = 0
        /\ props.stage_start_time > 0 =>
              /\ RunAppendedBy(next_stage_execute(Here, now, io)).failed_count
                    = props.failed_validate_count
              /\ RunAppendedBy(reset_execute(Here, now, io)).failed_count
                    = props.failed_validate_count
              /\ FinalizeEvent(props, now, TRUE, 0).failed_count
                    = props.failed_validate_count

\* a stage failed a validate and then passed one: the log holds a failed
\* validate of the attempt, the count is 0, and advance records 0
C37_Witness ==
    /\ props.stage_start_time > 0
    /\ props.stage_complete
    /\ props.failed_validate_count = 0
    /\ Cardinality(FailedSinceSetup(logfile)) = 1
    /\ RunAppendedBy(next_stage_execute(Here, now, "ok")).failed_count = 0
    /\ RunAppendedBy(next_stage_execute(Here, now, "ok")).completed

\* C38: in a session that logs without a write failure, the k-th Finalize
\* event of the log and the k-th run of the history carry the same chapter,
\* stage, completed flag, failed count, stalled seconds and start time.
C38_LogAgreesWithHistory ==
    LET F == FinalizeEventsOf(logfile)
        R == props.stage_runs
    IN /\ Len(F) = Len(R)
       /\ \A k \in DOMAIN R :
             /\ F[k].chapter = R[k].chapter
             /\ F[k].stage = R[k].stage
             /\ F[k].completed = R[k].completed
             /\ F[k].failed_count = R[k].failed_count
             /\ F[k].stalled_seconds = R[k].stalled_seconds
             /\ F[k].stage_started_at = R[k].started_at

\* an attempt that failed a validate was abandoned by a chapter jump after
\* half a second: run and event agree on a failed count and stall time that
\* are not 0
C38_Witness ==
    /\ Len(props.stage_runs) = 1
    /\ props.stage_runs[1].failed_count = 1
    /\ props.stage_runs[1].stalled_seconds = 1
    /\ ~props.stage_runs[1].completed
    /\ Len(FinalizeEventsOf(logfile)) = 1
    /\ FinalizeEventsOf(logfile)[1].stalled_seconds = 1
    /\ FinalizeEventsOf(logfile)[1].failed_count = 1

\* the sanitized id in the name of the log file
PidOfPath(path) == path[1]

\* C39: every event of the participant log file carries the sanitized id
\* that is in the file's name.
C39_EventsCarryFileId ==
    \A i \in DOMAIN logfile :
        logfile[i].value.participant_id = PidOfPath(props.participant_log_path)

\* what holds instead: the file is named after the id that was set when it
\* was created, it is the one file of the session, and every event carries
\* the id that was set when the event was written
C39_FileKeepsFirstId ==
    /\ logfile # <<>> =>
          /\ props.participant_log_path # NoPath
          /\ logfile[1].value.event = "session_start"
          /\ logfile[1].value.participant_id = PidOfPath(props.participant_log_path)
    /\ \A io \in IoStates :
          LET W == log_setup_event(Here, now, io)
          IN /\ logfile # <<>> => W.p.participant_log_path = props.participant_log_path
             /\ Len(W.f) > Len(logfile) =>
                   W.f[Len(W.f)].value.participant_id
                       = _safe_participant_id(props.participant_id)

\* the row of the key in a summary, as a set: empty when the key has no row
RowsOfKey(csv, key) == {csv.rows[i] : i \in {j \in DOMAIN csv.rows : RowKey(csv.rows[j]) = key}}

\* C40: the export operator and the standalone script are equivalent on
\* every log they both summarize: the same rows in the same order, with the
\* same failures, stalled-seconds and completed cells, and the same total.
C40_AggregatorsEquivalent ==
    LET e == ExportedNow
        m == ScriptedNow
    IN (e.status = "FINISHED" /\ m.status = "written" /\ e.W.f = logfile) =>
          /\ e.csv.rows = m.csv.rows
          /\ e.csv.total = m.csv.total

\* what holds instead: the totals agree; every row of the export is a row of
\* the script with the same failures, and the same cells when the group has
\* a Finalize event; without one the export leaves the stalled-seconds cell
\* empty where the script writes 0.000; the script has a row for every key
\* of a Setup event besides
C40_AggregatorsAgreeOnFinalized ==
    LET e == ExportedNow
        m == ScriptedNow
    IN (e.status = "FINISHED" /\ m.status = "written" /\ e.W.f = logfile) =>
          /\ e.csv.total = m.csv.total
          /\ RowKeys(e.csv) \subseteq RowKeys(m.csv)
          /\ \A key \in RowKeys(e.csv) :
                \A re \in RowsOfKey(e.csv, key), rm \in RowsOfKey(m.csv, key) :
                    /\ re.failures = rm.failures
                    /\ re.completed = rm.completed
                    /\ IF \E j \in DOMAIN logfile : IsEventOf(logfile, j, "finalize", key)
                       THEN re = rm
                       ELSE re.stalled = <<>> /\ rm.stalled = <<Fmt3(0)>>
          /\ \A key \in RowKeys(m.csv) \ RowKeys(e.csv) :
                /\ ~HasCountedEvent(logfile, key)
                /\ \E j \in DOMAIN logfile : IsEventOf(logfile, j, "setup", key)

====
